---- MODULE Spec2Model ----
(***************************************************************************)
(* Model of the wave_dist distribution program: the Distribution record    *)
(* (state.rs), its Pack codec, and the five instruction handlers of        *)
(* processor.rs, run one transaction at a time by the host.                *)
(*                                                                         *)
(* In the record and in the accounts a Pubkey (a 32-byte block) is one     *)
(* opaque cell, written as a number; in instruction data it is its 32      *)
(* bytes.  0 is Pubkey::default().  Integers of the record are little-endian       *)
(* bytes, as borsh writes them.  A u64 is held as its eight base-256       *)
(* digits, least significant first, so that it keeps its full width.       *)
(***************************************************************************)
EXTENDS Integers, Sequences, FiniteSets, TLC

VARIABLES
    accounts,     \* address -> [owner, data]: the accounts a caller can supply as the distribution account
    tokens,       \* token ledger: payouts received per recipient account, balance of the vault
    initialized,  \* history: addresses on which InitializeDistribution has succeeded
    begun,        \* history: addresses on which BeginDistribution has succeeded
    last,         \* the result of the last instruction processed
    instruction,  \* the DistInstruction a client packs
    input,        \* the instruction data handed to process_instruction
    decoded,      \* what DistInstruction::unpack made of input
    record,       \* the Distribution a handler is about to pack
    region,       \* the data of the account it packs into and unpacks from
    unpacked,     \* what unpack_from_slice made of region
    client        \* the distribute subcommand of the command-line client

ledger == <<accounts, tokens, initialized, begun, last>>
codec == <<instruction, input, decoded>>
store == <<record, region, unpacked>>
vars == <<accounts, tokens, initialized, begun, last, instruction, input, decoded,
          record, region, unpacked, client>>

----------------------------------------------------------------------------
(* Bounds of the model *)

MaxCap == 2        \* max_recipients and num_recipients are drawn from 0..MaxCap
MaxFunded == 2     \* amounts are drawn from 0..MaxFunded; funding stops at MaxFunded
MaxBatch == 2      \* a Distribute call names at most MaxBatch recipients

----------------------------------------------------------------------------
(* Identities: a Pubkey is written as a number *)

SystemProgramId == 0
ProgramId == 10
TokenProgramId == 11

\* what a caller can pass as the token program account
TokenPrograms == {TokenProgramId, 12}

\* wallets: the keys that sign as authority, source or fee payer
Keys == {1, 2}

\* the token (mint) address passed to InitializeDistribution
Mints == {15}

\* accounts passed as token accounts: 40 the distribution's, 41 the funder's,
\* 50.. the recipients'; 59 is an account the token program does not own
Recipients == {50, 51}
VaultAccount == 40
SourceTokenAccounts == {41, 59}
DistTokenAccounts == {VaultAccount, 59}

\* the owner field of an account passed as a token account
TokenAccountOwner(a) == IF a = 59 THEN SystemProgramId ELSE TokenProgramId

\* the seed and the project name of an InitializeDistribution: the client's
\* are 1 and 2; a call can carry them in any combination
Seeds == {1, 2}
ProjectNames == {1, 2}
Bumps == {254, 255}

----------------------------------------------------------------------------
(* Errors *)

Ok == "Ok"
IncorrectProgramId == "IncorrectProgramId"
MissingRequiredSignature == "MissingRequiredSignature"
InvalidSeeds == "InvalidSeeds"
InvalidArgument == "InvalidArgument"
InvalidAccountData == "InvalidAccountData"
UninitializedAccount == "UninitializedAccount"
AccountAlreadyInitialized == "AccountAlreadyInitialized"
AccountAlreadyInUse == "AccountAlreadyInUse"
TokenTransferRejected == "TokenTransferRejected"
ArithmeticPanic == "ArithmeticPanic"
DistributionAlreadyStarted == "DistributionAlreadyStarted"
UnauthorizedDistAuthority == "UnauthorizedDistAuthority"
TooManyRecipients == "TooManyRecipients"
InvalidInstruction == "InvalidInstruction"
\* slice::split_at called with mid > len: the program aborts
SplitAtPanic == "SplitAtPanic"

----------------------------------------------------------------------------
(* state.rs: the record and its codec *)

UNINITIALIZED_VERSION == 0
VERSION_1 == 1

U16_MODULUS == 65536
U64_BYTES == 8

\* DISTRIBUTION_SIZE in cells: version, seed, project_name, bump, dist_authority,
\* token (one cell each), then 2 + 2 + 8 + 2 integer bytes
DISTRIBUTION_SIZE == 20

RECURSIVE to_le_bytes(_, _)
to_le_bytes(n, width) ==
    IF width = 0 THEN <<>> ELSE <<n % 256>> \o to_le_bytes(n \div 256, width - 1)

RECURSIVE from_le_bytes(_)
from_le_bytes(bytes) ==
    IF Len(bytes) = 0 THEN 0 ELSE Head(bytes) + 256 * from_le_bytes(Tail(bytes))

\* a u64 from a number small enough to write down, and back
U64(n) == to_le_bytes(n, U64_BYTES)
U64Small(x) == \A i \in 4..U64_BYTES : x[i] = 0
U64Value(x) == from_le_bytes(SubSeq(x, 1, 3))

\* u64::checked_add, digit by digit from digit i with the carry c: None when a
\* carry leaves the last digit, i.e. when the sum passes u64::MAX
RECURSIVE add_digits(_, _, _, _)
add_digits(a, b, i, c) ==
    IF i > U64_BYTES THEN [some |-> c = 0, value |-> <<>>]
    ELSE LET t == a[i] + b[i] + c
             rest == add_digits(a, b, i + 1, t \div 256)
         IN [some |-> rest.some, value |-> <<t % 256>> \o rest.value]

\* mutant: checked_add wrapping modulo 2^64
wrapping_add(a, b) == [some |-> TRUE, value |-> add_digits(a, b, 1, 0).value]

checked_add(a, b) == add_digits(a, b, 1, 0)

\* u64 / u64 for a divisor below 2^16: long division from the top digit down
RECURSIVE div_digits(_, _, _, _)
div_digits(a, n, i, rem) ==
    IF i = 0 THEN <<>>
    ELSE LET t == rem * 256 + a[i]
         IN div_digits(a, n, i - 1, t % n) \o <<t \div n>>

Distribution_default ==
    [version |-> UNINITIALIZED_VERSION, seed |-> 0, project_name |-> 0, bump |-> 0,
     dist_authority |-> 0, token |-> 0, max_recipients |-> 0, num_recipients |-> 0,
     funded_amount |-> U64(0), sent_recipients |-> 0]

\* mutant: init storing the seed and the project name in each other's place
init_swaps_seeds(dist, seed, project_name, bump, dist_authority, token, max_recipients, num_recipients) ==
    [dist EXCEPT !.version = VERSION_1, !.seed = project_name, !.project_name = seed,
                 !.bump = bump, !.dist_authority = dist_authority, !.token = token,
                 !.max_recipients = max_recipients, !.num_recipients = num_recipients]

\* mutant: init without `self.version = VERSION_1`
init_keeps_version(dist, seed, project_name, bump, dist_authority, token, max_recipients, num_recipients) ==
    [dist EXCEPT !.seed = seed, !.project_name = project_name,
                 !.bump = bump, !.dist_authority = dist_authority, !.token = token,
                 !.max_recipients = max_recipients, !.num_recipients = num_recipients]

init(dist, seed, project_name, bump, dist_authority, token, max_recipients, num_recipients) ==
    [dist EXCEPT !.version = VERSION_1, !.seed = seed, !.project_name = project_name,
                 !.bump = bump, !.dist_authority = dist_authority, !.token = token,
                 !.max_recipients = max_recipients, !.num_recipients = num_recipients]

\* mutant: set_dist_authority leaving the stored authority as it is
set_dist_authority_keeps(dist, new_dist_authority) == dist

\* mutant: set_dist_authority writing the record back as uninitialized
set_dist_authority_uninitializes(dist, new_dist_authority) ==
    [dist EXCEPT !.version = UNINITIALIZED_VERSION, !.dist_authority = new_dist_authority]

set_dist_authority(dist, new_dist_authority) ==
    [dist EXCEPT !.dist_authority = new_dist_authority]

\* mutant: set_num_recipients writing the cap and the payout count as well
set_num_recipients_resets_sent(dist, num_recipients) ==
    [dist EXCEPT !.num_recipients = num_recipients, !.sent_recipients = 0,
                 !.max_recipients = num_recipients]

set_num_recipients(dist, num_recipients) ==
    [dist EXCEPT !.num_recipients = num_recipients]

\* mutant: recipient_share without the test for num_recipients = 0 and
\* dividing by num_recipients + 1
recipient_share_off_by_one(dist) ==
    div_digits(dist.funded_amount, dist.num_recipients + 1, U64_BYTES, 0)

recipient_share(dist) ==
    IF dist.num_recipients = 0 THEN U64(0)
    ELSE div_digits(dist.funded_amount, dist.num_recipients, U64_BYTES, 0)

\* mutant: record_funded_amount storing the amount of the call
record_funded_amount_overwrites(dist, amount) ==
    [panicked |-> FALSE, dist |-> [dist EXCEPT !.funded_amount = amount]]

\* checked_add(amount).unwrap(): [panicked, dist]
record_funded_amount(dist, amount) ==
    LET sum == checked_add(dist.funded_amount, amount) IN
    [panicked |-> ~sum.some,
     dist |-> IF sum.some THEN [dist EXCEPT !.funded_amount = sum.value] ELSE dist]

\* mutant: record_sent_recipient leaving the counter as it is
record_sent_recipient_forgets(dist, recipient) == dist

\* mutant: record_sent_recipient on a counter of one bit
record_sent_recipient_wraps(dist, recipient) ==
    [dist EXCEPT !.sent_recipients = (dist.sent_recipients + 1) % 2]

\* mutant: record_sent_recipient counting a recipient twice
record_sent_recipient_twice(dist, recipient) ==
    [dist EXCEPT !.sent_recipients = (dist.sent_recipients + 2) % U16_MODULUS]

\* the recipient is not recorded: only the counter moves
record_sent_recipient(dist, recipient) ==
    [dist EXCEPT !.sent_recipients = (dist.sent_recipients + 1) % U16_MODULUS]

\* mutant: has_started reads the payout counter
has_started_by_sent(dist) == dist.sent_recipients > 0

has_started(dist) == dist.num_recipients > 0

is_initialized(dist) == dist.version # UNINITIALIZED_VERSION

\* mutant: pack_into_slice writing num_recipients before max_recipients
pack_into_slice_swapped(dist) ==
    <<dist.version, dist.seed, dist.project_name, dist.bump, dist.dist_authority, dist.token>>
    \o to_le_bytes(dist.num_recipients, 2)
    \o to_le_bytes(dist.max_recipients, 2)
    \o dist.funded_amount
    \o to_le_bytes(dist.sent_recipients, 2)

pack_into_slice(dist) ==
    <<dist.version, dist.seed, dist.project_name, dist.bump, dist.dist_authority, dist.token>>
    \o to_le_bytes(dist.max_recipients, 2)
    \o to_le_bytes(dist.num_recipients, 2)
    \o dist.funded_amount
    \o to_le_bytes(dist.sent_recipients, 2)

try_from_slice(src) ==
    [version |-> src[1], seed |-> src[2], project_name |-> src[3], bump |-> src[4],
     dist_authority |-> src[5], token |-> src[6],
     max_recipients |-> from_le_bytes(SubSeq(src, 7, 8)),
     num_recipients |-> from_le_bytes(SubSeq(src, 9, 10)),
     funded_amount |-> SubSeq(src, 11, 18),
     sent_recipients |-> from_le_bytes(SubSeq(src, 19, 20))]

\* mutant: unpack_from_slice parsing every version but 0 as version 1
unpack_from_slice_any_version(src) ==
    IF src[1] = UNINITIALIZED_VERSION THEN [err |-> Ok, dist |-> Distribution_default]
    ELSE [err |-> Ok, dist |-> try_from_slice(src)]

\* [err, dist]
unpack_from_slice(src) ==
    IF src[1] = UNINITIALIZED_VERSION THEN [err |-> Ok, dist |-> Distribution_default]
    ELSE IF src[1] = VERSION_1 THEN [err |-> Ok, dist |-> try_from_slice(src)]
    ELSE [err |-> InvalidAccountData, dist |-> Distribution_default]

unpack_unchecked(src) ==
    IF Len(src) # DISTRIBUTION_SIZE
    THEN [err |-> InvalidAccountData, dist |-> Distribution_default]
    ELSE unpack_from_slice(src)

unpack(src) ==
    LET value == unpack_unchecked(src) IN
    IF value.err # Ok THEN value
    ELSE IF is_initialized(value.dist) THEN value
    ELSE [err |-> UninitializedAccount, dist |-> Distribution_default]

\* Pack::pack: the region keeps its size; a region of another size is refused
pack(dist, dst) ==
    IF Len(dst) # DISTRIBUTION_SIZE THEN [err |-> InvalidAccountData, data |-> dst]
    ELSE [err |-> Ok, data |-> pack_into_slice(dist)]

\* PdaSeed::create_pubkey: the address hashed from the seeds and the program id,
\* or InvalidSeeds when the hash is a point of the curve: [err, key]
create_pubkey(seed, project_name, bump, program_id) ==
    LET h == (seed * 2 + project_name * 6 + bump + program_id) % 8 IN
    IF h = 6 THEN [err |-> InvalidSeeds, key |-> 0] ELSE [err |-> Ok, key |-> 20 + h]

cmp_pubkeys(a, b) == a = b

----------------------------------------------------------------------------
(* The accounts a caller can supply as the distribution account *)

\* the address the client derives for (seed 1, project 2): bump 255
DistAddress == create_pubkey(1, 2, 255, ProgramId).key

zeroed == [i \in 1..DISTRIBUTION_SIZE |-> 0]

\* a record written by another program at an address of its choosing: it names
\* the seeds of DistAddress and its author's key, 1, as authority
forged ==
    pack_into_slice(init(Distribution_default, 1, 2, 255, 1, 15, MaxCap, 0))

\* DistAddress does not exist yet (system-owned, no data); 30 holds the forged
\* record under another program; 31 is a zero-filled region assigned to this
\* program; 32 is the address of a fresh keypair, not in use either
InitialAccounts ==
    (DistAddress :> [owner |-> SystemProgramId, data |-> <<>>])
    @@ (30 :> [owner |-> 12, data |-> forged])
    @@ (31 :> [owner |-> ProgramId, data |-> zeroed])
    @@ (32 :> [owner |-> SystemProgramId, data |-> <<>>])

DistAddrs == DOMAIN InitialAccounts

\* the record a region holds, read without the initialization check
RecordAt(accs, d) == unpack_unchecked(accs[d].data).dist

----------------------------------------------------------------------------
(* processor.rs: the handlers.  Each returns [res, accounts, tokens]: the     *)
(* result and what the transaction leaves behind.  A handler that returns  *)
(* an error has written nothing, and the host drops what its sub-calls did *)

\* a handler's outcome: [res, accounts, tokens, invoked], invoked being the
\* transfers it has asked the token program for.  On an error the host
\* discards what the transaction wrote
Fail(err, accs, pd) == [res |-> err, accounts |-> accs, tokens |-> pd, invoked |-> <<>>]

\* an error after the transfers `invoked` were asked for
FailAfter(err, accs, pd, invoked) ==
    [res |-> err, accounts |-> accs, tokens |-> pd, invoked |-> invoked]

Store(accs, d, dist) ==
    [accs EXCEPT ![d].data = pack(dist, accs[d].data).data]

\* spl_token::check_program_account
check_program_account(key) == key = TokenProgramId

\* mutant: create_account allocating over an account in use
create_account_over_existing(accs, d, program_id) ==
    [err |-> Ok, accounts |-> [accs EXCEPT ![d] = [owner |-> program_id, data |-> zeroed]]]

\* system_instruction::create_account: refused when the address is in use
create_account(accs, d, program_id) ==
    IF accs[d].owner # SystemProgramId \/ Len(accs[d].data) # 0
    THEN [err |-> AccountAlreadyInUse, accounts |-> accs]
    ELSE [err |-> Ok, accounts |-> [accs EXCEPT ![d] = [owner |-> program_id, data |-> zeroed]]]

\* the token program moves `amount` only out of the vault, the one account
\* the distribution address has authority over, and only when it holds it
sufficient(pd, dist_token, amount) ==
    dist_token = VaultAccount /\ U64Small(amount) /\ U64Value(amount) <= pd.vault

\* the token program's transfer of `amount` from the vault (the distribution's
\* token account) to `recipient`: payouts counts the transfers of a positive
\* amount an account has received
transfer(pd, recipient, amount) ==
    IF amount = U64(0) THEN pd
    ELSE [payouts |-> [pd.payouts EXCEPT ![recipient] = @ + 1],
          vault |-> pd.vault - U64Value(amount)]

\* the token program's transfer of `amount` from the funder into dist_token:
\* the vault's balance is the only one the ledger follows
deposit(pd, dist_token, amount) ==
    IF dist_token = VaultAccount THEN [pd EXCEPT !.vault = @ + U64Value(amount)] ELSE pd

\* spl_token::instruction::transfer, and the seeds invoke_signed signs it with
transfer_instruction(token_program, source, destination, amount, seeds) ==
    [program |-> token_program, source |-> source, destination |-> destination,
     amount |-> amount, seeds |-> seeds]

\* mutant: process_initialize_distribution without the comparison of the
\* account's address with the derived one
process_initialize_distribution_anywhere(accs, pd, program_id, fee_payer_signed, token_program, token, d, seed, project_name, seed_bump, max_recipients, dist_authority) ==
    LET pda == create_pubkey(seed, project_name, seed_bump, program_id)
        created == create_account(accs, d, program_id)
        dist == unpack_unchecked(created.accounts[d].data)
    IN
    IF ~check_program_account(token_program) THEN Fail(IncorrectProgramId, accs, pd)
    ELSE IF ~fee_payer_signed THEN Fail(MissingRequiredSignature, accs, pd)
    ELSE IF pda.err # Ok THEN Fail(pda.err, accs, pd)
    ELSE IF created.err # Ok THEN Fail(created.err, accs, pd)
    ELSE IF dist.err # Ok THEN Fail(dist.err, accs, pd)
    ELSE IF is_initialized(dist.dist) THEN Fail(AccountAlreadyInitialized, accs, pd)
    ELSE [res |-> Ok,
          accounts |-> Store(created.accounts, d,
                             init(dist.dist, seed, project_name, seed_bump,
                                  dist_authority, token, max_recipients, 0)),
          tokens |-> pd, invoked |-> <<>>]

process_initialize_distribution(accs, pd, program_id, fee_payer_signed, token_program, token, d, seed, project_name, seed_bump, max_recipients, dist_authority) ==
    LET pda == create_pubkey(seed, project_name, seed_bump, program_id)
        created == create_account(accs, d, program_id)
        dist == unpack_unchecked(created.accounts[d].data)
    IN
    IF ~check_program_account(token_program) THEN Fail(IncorrectProgramId, accs, pd)
    ELSE IF ~fee_payer_signed THEN Fail(MissingRequiredSignature, accs, pd)
    ELSE IF pda.err # Ok THEN Fail(pda.err, accs, pd)
    ELSE IF ~cmp_pubkeys(d, pda.key) THEN Fail(InvalidSeeds, accs, pd)
    ELSE IF created.err # Ok THEN Fail(created.err, accs, pd)
    ELSE IF dist.err # Ok THEN Fail(dist.err, accs, pd)
    ELSE IF is_initialized(dist.dist) THEN Fail(AccountAlreadyInitialized, accs, pd)
    ELSE [res |-> Ok,
          accounts |-> Store(created.accounts, d,
                             init(dist.dist, seed, project_name, seed_bump,
                                  dist_authority, token, max_recipients, 0)),
          tokens |-> pd, invoked |-> <<>>]

\* mutant: process_fund_distribution without the owner checks of the token accounts
process_fund_distribution_any_token(accs, pd, program_id, source_signed, source_token, d, dist_token, token_program, amount, transfer_ok) ==
    LET dist == unpack(accs[d].data)
        pda == create_pubkey(dist.dist.seed, dist.dist.project_name, dist.dist.bump, program_id)
        funded == record_funded_amount(dist.dist, amount)
        pull_tokens == transfer_instruction(token_program, source_token, dist_token, amount, <<>>)
    IN
    IF ~source_signed THEN Fail(MissingRequiredSignature, accs, pd)
    ELSE IF ~cmp_pubkeys(program_id, accs[d].owner) THEN Fail(IncorrectProgramId, accs, pd)
    ELSE IF ~check_program_account(token_program) THEN Fail(IncorrectProgramId, accs, pd)
    ELSE IF dist.err # Ok THEN Fail(dist.err, accs, pd)
    ELSE IF pda.err # Ok THEN Fail(pda.err, accs, pd)
    ELSE IF ~cmp_pubkeys(d, pda.key) THEN Fail(InvalidAccountData, accs, pd)
    ELSE IF ~transfer_ok THEN FailAfter(TokenTransferRejected, accs, pd, <<pull_tokens>>)
    ELSE IF funded.panicked THEN FailAfter(ArithmeticPanic, accs, pd, <<pull_tokens>>)
    ELSE [res |-> Ok, accounts |-> Store(accs, d, funded.dist),
          tokens |-> deposit(pd, dist_token, amount), invoked |-> <<pull_tokens>>]

process_fund_distribution(accs, pd, program_id, source_signed, source_token, d, dist_token, token_program, amount, transfer_ok) ==
    LET dist == unpack(accs[d].data)
        pda == create_pubkey(dist.dist.seed, dist.dist.project_name, dist.dist.bump, program_id)
        funded == record_funded_amount(dist.dist, amount)
        pull_tokens == transfer_instruction(token_program, source_token, dist_token, amount, <<>>)
    IN
    IF ~source_signed THEN Fail(MissingRequiredSignature, accs, pd)
    ELSE IF ~cmp_pubkeys(program_id, accs[d].owner) THEN Fail(IncorrectProgramId, accs, pd)
    ELSE IF ~check_program_account(token_program) THEN Fail(IncorrectProgramId, accs, pd)
    ELSE IF ~cmp_pubkeys(TokenAccountOwner(source_token), token_program)
         THEN Fail(InvalidArgument, accs, pd)
    ELSE IF ~cmp_pubkeys(TokenAccountOwner(dist_token), token_program)
         THEN Fail(InvalidArgument, accs, pd)
    ELSE IF dist.err # Ok THEN Fail(dist.err, accs, pd)
    ELSE IF pda.err # Ok THEN Fail(pda.err, accs, pd)
    ELSE IF ~cmp_pubkeys(d, pda.key) THEN Fail(InvalidAccountData, accs, pd)
    ELSE IF ~transfer_ok THEN FailAfter(TokenTransferRejected, accs, pd, <<pull_tokens>>)
    ELSE IF funded.panicked THEN FailAfter(ArithmeticPanic, accs, pd, <<pull_tokens>>)
    ELSE [res |-> Ok, accounts |-> Store(accs, d, funded.dist),
          tokens |-> deposit(pd, dist_token, amount), invoked |-> <<pull_tokens>>]

\* mutant: process_set_dist_authority without the comparison with the stored authority
process_set_dist_authority_unchecked(accs, pd, program_id, d, authority_key, authority_signed, new_dist_authority) ==
    LET dist == unpack(accs[d].data) IN
    IF ~cmp_pubkeys(program_id, accs[d].owner) THEN Fail(IncorrectProgramId, accs, pd)
    ELSE IF ~authority_signed THEN Fail(MissingRequiredSignature, accs, pd)
    ELSE IF dist.err # Ok THEN Fail(dist.err, accs, pd)
    ELSE [res |-> Ok,
          accounts |-> Store(accs, d, set_dist_authority(dist.dist, new_dist_authority)),
          tokens |-> pd, invoked |-> <<>>]

\* mutant: process_set_dist_authority without the owner check
process_set_dist_authority_any_owner(accs, pd, program_id, d, authority_key, authority_signed, new_dist_authority) ==
    LET dist == unpack(accs[d].data) IN
    IF ~authority_signed THEN Fail(MissingRequiredSignature, accs, pd)
    ELSE IF dist.err # Ok THEN Fail(dist.err, accs, pd)
    ELSE IF ~cmp_pubkeys(dist.dist.dist_authority, authority_key)
         THEN Fail(UnauthorizedDistAuthority, accs, pd)
    ELSE [res |-> Ok,
          accounts |-> Store(accs, d, set_dist_authority(dist.dist, new_dist_authority)),
          tokens |-> pd, invoked |-> <<>>]

process_set_dist_authority(accs, pd, program_id, d, authority_key, authority_signed, new_dist_authority) ==
    LET dist == unpack(accs[d].data) IN
    IF ~cmp_pubkeys(program_id, accs[d].owner) THEN Fail(IncorrectProgramId, accs, pd)
    ELSE IF ~authority_signed THEN Fail(MissingRequiredSignature, accs, pd)
    ELSE IF dist.err # Ok THEN Fail(dist.err, accs, pd)
    ELSE IF ~cmp_pubkeys(dist.dist.dist_authority, authority_key)
         THEN Fail(UnauthorizedDistAuthority, accs, pd)
    ELSE [res |-> Ok,
          accounts |-> Store(accs, d, set_dist_authority(dist.dist, new_dist_authority)),
          tokens |-> pd, invoked |-> <<>>]

\* mutant: process_begin_distribution testing has_started before the authority
process_begin_distribution_state_first(accs, pd, program_id, d, authority_key, authority_signed, num_recipients) ==
    LET dist == unpack(accs[d].data) IN
    IF ~cmp_pubkeys(program_id, accs[d].owner) THEN Fail(IncorrectProgramId, accs, pd)
    ELSE IF ~authority_signed THEN Fail(MissingRequiredSignature, accs, pd)
    ELSE IF dist.err # Ok THEN Fail(dist.err, accs, pd)
    ELSE IF has_started(dist.dist) THEN Fail(DistributionAlreadyStarted, accs, pd)
    ELSE IF ~cmp_pubkeys(dist.dist.dist_authority, authority_key)
         THEN Fail(UnauthorizedDistAuthority, accs, pd)
    ELSE [res |-> Ok,
          accounts |-> Store(accs, d, set_num_recipients(dist.dist, num_recipients)),
          tokens |-> pd, invoked |-> <<>>]

process_begin_distribution(accs, pd, program_id, d, authority_key, authority_signed, num_recipients) ==
    LET dist == unpack(accs[d].data) IN
    IF ~cmp_pubkeys(program_id, accs[d].owner) THEN Fail(IncorrectProgramId, accs, pd)
    ELSE IF ~authority_signed THEN Fail(MissingRequiredSignature, accs, pd)
    ELSE IF dist.err # Ok THEN Fail(dist.err, accs, pd)
    ELSE IF ~cmp_pubkeys(dist.dist.dist_authority, authority_key)
         THEN Fail(UnauthorizedDistAuthority, accs, pd)
    ELSE IF has_started(dist.dist) THEN Fail(DistributionAlreadyStarted, accs, pd)
    ELSE [res |-> Ok,
          accounts |-> Store(accs, d, set_num_recipients(dist.dist, num_recipients)),
          tokens |-> pd, invoked |-> <<>>]

\* mutant: the capacity check of the loop with > for >=
RECURSIVE distribute_loop_off_by_one(_, _, _, _, _, _, _, _)
distribute_loop_off_by_one(dist, pd, dist_token, batch, i, token_program, share, fail_at) ==
    LET stop(e, invoked) == [res |-> e, dist |-> dist, tokens |-> pd, invoked |-> invoked]
        distribute_tokens ==
            transfer_instruction(token_program, dist_token, batch[i], share,
                                 <<dist.seed, dist.project_name, dist.bump>>)
    IN
    IF i > Len(batch) THEN stop(Ok, <<>>)
    ELSE IF dist.sent_recipients > dist.max_recipients THEN stop(TooManyRecipients, <<>>)
    ELSE IF ~cmp_pubkeys(TokenAccountOwner(batch[i]), token_program)
         THEN stop(InvalidArgument, <<>>)
    ELSE IF i = fail_at \/ ~sufficient(pd, dist_token, share)
         THEN stop(TokenTransferRejected, <<distribute_tokens>>)
    ELSE LET rest == distribute_loop_off_by_one(record_sent_recipient(dist, batch[i]),
                     transfer(pd, batch[i], share),
                     dist_token, batch, i + 1, token_program, share, fail_at)
         IN [rest EXCEPT !.invoked = <<distribute_tokens>> \o @]

\* mutant: the capacity check of the loop against num_recipients
RECURSIVE distribute_loop_caps_at_num(_, _, _, _, _, _, _, _)
distribute_loop_caps_at_num(dist, pd, dist_token, batch, i, token_program, share, fail_at) ==
    LET stop(e, invoked) == [res |-> e, dist |-> dist, tokens |-> pd, invoked |-> invoked]
        distribute_tokens ==
            transfer_instruction(token_program, dist_token, batch[i], share,
                                 <<dist.seed, dist.project_name, dist.bump>>)
    IN
    IF i > Len(batch) THEN stop(Ok, <<>>)
    ELSE IF dist.sent_recipients >= dist.num_recipients THEN stop(TooManyRecipients, <<>>)
    ELSE IF ~cmp_pubkeys(TokenAccountOwner(batch[i]), token_program)
         THEN stop(InvalidArgument, <<>>)
    ELSE IF i = fail_at \/ ~sufficient(pd, dist_token, share)
         THEN stop(TokenTransferRejected, <<distribute_tokens>>)
    ELSE LET rest == distribute_loop_caps_at_num(record_sent_recipient(dist, batch[i]),
                     transfer(pd, batch[i], share),
                     dist_token, batch, i + 1, token_program, share, fail_at)
         IN [rest EXCEPT !.invoked = <<distribute_tokens>> \o @]

\* the loop of process_distribute from recipient i on: [res, dist, tokens].
\* fail_at is the turn at which the token program refuses the transfer (0: never)
RECURSIVE distribute_loop(_, _, _, _, _, _, _, _)
distribute_loop(dist, pd, dist_token, batch, i, token_program, share, fail_at) ==
    LET stop(e, invoked) == [res |-> e, dist |-> dist, tokens |-> pd, invoked |-> invoked]
        distribute_tokens ==
            transfer_instruction(token_program, dist_token, batch[i], share,
                                 <<dist.seed, dist.project_name, dist.bump>>)
    IN
    IF i > Len(batch) THEN stop(Ok, <<>>)
    ELSE IF dist.sent_recipients >= dist.max_recipients THEN stop(TooManyRecipients, <<>>)
    ELSE IF ~cmp_pubkeys(TokenAccountOwner(batch[i]), token_program)
         THEN stop(InvalidArgument, <<>>)
    ELSE IF i = fail_at \/ ~sufficient(pd, dist_token, share)
         THEN stop(TokenTransferRejected, <<distribute_tokens>>)
    ELSE LET rest == distribute_loop(record_sent_recipient(dist, batch[i]),
                     transfer(pd, batch[i], share),
                     dist_token, batch, i + 1, token_program, share, fail_at)
         IN [rest EXCEPT !.invoked = <<distribute_tokens>> \o @]

\* mutant: process_distribute packing the record when the loop stops on an error
process_distribute_partial(accs, pd, program_id, d, authority_key, authority_signed, token_program, dist_token, batch, fail_at) ==
    LET dist == unpack(accs[d].data)
        done == distribute_loop(dist.dist, pd, dist_token, batch, 1, token_program,
                                recipient_share(dist.dist), fail_at)
    IN
    IF ~cmp_pubkeys(program_id, accs[d].owner) THEN Fail(IncorrectProgramId, accs, pd)
    ELSE IF ~authority_signed THEN Fail(MissingRequiredSignature, accs, pd)
    ELSE IF ~check_program_account(token_program) THEN Fail(IncorrectProgramId, accs, pd)
    ELSE IF dist.err # Ok THEN Fail(dist.err, accs, pd)
    ELSE IF ~cmp_pubkeys(dist.dist.dist_authority, authority_key)
         THEN Fail(UnauthorizedDistAuthority, accs, pd)
    ELSE [res |-> done.res, accounts |-> Store(accs, d, done.dist), tokens |-> done.tokens,
          invoked |-> done.invoked]

\* mutant: process_distribute returning Ok without packing the record back
process_distribute_unsaved(accs, pd, program_id, d, authority_key, authority_signed, token_program, dist_token, batch, fail_at) ==
    LET dist == unpack(accs[d].data)
        done == distribute_loop(dist.dist, pd, dist_token, batch, 1, token_program,
                                recipient_share(dist.dist), fail_at)
    IN
    IF ~cmp_pubkeys(program_id, accs[d].owner) THEN Fail(IncorrectProgramId, accs, pd)
    ELSE IF ~authority_signed THEN Fail(MissingRequiredSignature, accs, pd)
    ELSE IF ~check_program_account(token_program) THEN Fail(IncorrectProgramId, accs, pd)
    ELSE IF dist.err # Ok THEN Fail(dist.err, accs, pd)
    ELSE IF ~cmp_pubkeys(dist.dist.dist_authority, authority_key)
         THEN Fail(UnauthorizedDistAuthority, accs, pd)
    ELSE IF done.res # Ok THEN FailAfter(done.res, accs, pd, done.invoked)
    ELSE [res |-> Ok, accounts |-> accs, tokens |-> done.tokens, invoked |-> done.invoked]

process_distribute(accs, pd, program_id, d, authority_key, authority_signed, token_program, dist_token, batch, fail_at) ==
    LET dist == unpack(accs[d].data)
        done == distribute_loop(dist.dist, pd, dist_token, batch, 1, token_program,
                                recipient_share(dist.dist), fail_at)
    IN
    IF ~cmp_pubkeys(program_id, accs[d].owner) THEN Fail(IncorrectProgramId, accs, pd)
    ELSE IF ~authority_signed THEN Fail(MissingRequiredSignature, accs, pd)
    ELSE IF ~check_program_account(token_program) THEN Fail(IncorrectProgramId, accs, pd)
    ELSE IF dist.err # Ok THEN Fail(dist.err, accs, pd)
    ELSE IF ~cmp_pubkeys(dist.dist.dist_authority, authority_key)
         THEN Fail(UnauthorizedDistAuthority, accs, pd)
    ELSE IF done.res # Ok THEN FailAfter(done.res, accs, pd, done.invoked)
    ELSE [res |-> Ok, accounts |-> Store(accs, d, done.dist), tokens |-> done.tokens,
          invoked |-> done.invoked]

----------------------------------------------------------------------------
(* instruction.rs: DistInstruction and its codec *)

PUBKEY_BYTES == 32

\* the 32 bytes of the Pubkey written k: no two positions hold the same byte
PubkeyBytes(k) == [i \in 1..PUBKEY_BYTES |-> (k * 7 + i * 3) % 256]

InitializeDistributionOf(seed, project_name, seed_bump, max_recipients, dist_authority) ==
    [variant |-> "InitializeDistribution", seed |-> seed, project_name |-> project_name,
     seed_bump |-> seed_bump, max_recipients |-> max_recipients,
     dist_authority |-> dist_authority]

FundDistributionOf(amount) == [variant |-> "FundDistribution", amount |-> amount]

SetDistAuthorityOf(new_dist_authority) ==
    [variant |-> "SetDistAuthority", new_dist_authority |-> new_dist_authority]

BeginDistributionOf(num_recipients) ==
    [variant |-> "BeginDistribution", num_recipients |-> num_recipients]

DistributeOf == [variant |-> "Distribute"]

\* no instruction at hand
NoInstruction == [variant |-> "none"]

\* mutant: pack writing its integers most significant byte first
DistInstruction_pack_big_endian(x) ==
    LET reversed(b) == [i \in 1..Len(b) |-> b[Len(b) + 1 - i]] IN
    CASE x.variant = "InitializeDistribution" ->
            <<0>> \o x.seed \o x.project_name \o <<x.seed_bump>>
                  \o reversed(to_le_bytes(x.max_recipients, 2)) \o x.dist_authority
      [] x.variant = "FundDistribution" -> <<1>> \o reversed(to_le_bytes(x.amount, 8))
      [] x.variant = "SetDistAuthority" -> <<2>> \o x.new_dist_authority
      [] x.variant = "BeginDistribution" -> <<3>> \o reversed(to_le_bytes(x.num_recipients, 2))
      [] x.variant = "Distribute" -> <<4>>

\* DistInstruction::pack
DistInstruction_pack(x) ==
    CASE x.variant = "InitializeDistribution" ->
            <<0>> \o x.seed \o x.project_name \o <<x.seed_bump>>
                  \o to_le_bytes(x.max_recipients, 2) \o x.dist_authority
      [] x.variant = "FundDistribution" -> <<1>> \o to_le_bytes(x.amount, 8)
      [] x.variant = "SetDistAuthority" -> <<2>> \o x.new_dist_authority
      [] x.variant = "BeginDistribution" -> <<3>> \o to_le_bytes(x.num_recipients, 2)
      [] x.variant = "Distribute" -> <<4>>

\* slice::split_at: panics when mid > len
split_at(s, mid) ==
    IF mid > Len(s) THEN [panic |-> TRUE, head |-> <<>>, rest |-> <<>>]
    ELSE [panic |-> FALSE, head |-> SubSeq(s, 1, mid), rest |-> SubSeq(s, mid + 1, Len(s))]

\* DistInstruction::unpack_pubkey
unpack_pubkey(bytes) ==
    IF Len(bytes) >= PUBKEY_BYTES
    THEN [err |-> Ok, key |-> SubSeq(bytes, 1, PUBKEY_BYTES),
          rest |-> SubSeq(bytes, PUBKEY_BYTES + 1, Len(bytes))]
    ELSE [err |-> InvalidInstruction, key |-> <<>>, rest |-> <<>>]

\* the outcomes of DistInstruction::unpack
Decoded(x) == [err |-> Ok, value |-> x]
Refused(e) == [err |-> e, value |-> NoInstruction]
NotDecoded == Refused("none")

\* <[u8; N]>::try_from(slice).ok().map(from_le_bytes).ok_or(InvalidInstruction)
le_integer(bytes, width) ==
    IF Len(bytes) = width THEN [err |-> Ok, value |-> from_le_bytes(bytes)]
    ELSE [err |-> InvalidInstruction, value |-> 0]

\* the arm of tag 0
unpack_initialize_distribution(rest) ==
    LET seed == unpack_pubkey(rest)
        project_name == unpack_pubkey(seed.rest)
        seed_bump == split_at(project_name.rest, 1)
        max_recipients == split_at(seed_bump.rest, 2)
        max_value == le_integer(max_recipients.head, 2)
        dist_authority == unpack_pubkey(max_recipients.rest)
    IN
    IF seed.err # Ok THEN Refused(seed.err)
    ELSE IF project_name.err # Ok THEN Refused(project_name.err)
    ELSE IF seed_bump.panic THEN Refused(SplitAtPanic)
    ELSE IF max_recipients.panic THEN Refused(SplitAtPanic)
    ELSE IF max_value.err # Ok THEN Refused(max_value.err)
    ELSE IF dist_authority.err # Ok THEN Refused(dist_authority.err)
    ELSE Decoded(InitializeDistributionOf(seed.key, project_name.key, seed_bump.head[1],
                                          max_value.value, dist_authority.key))

\* the arm of tag 1
unpack_fund_distribution(rest) ==
    LET amount == split_at(rest, 8)
        value == le_integer(amount.head, 8)
    IN
    IF amount.panic THEN Refused(SplitAtPanic)
    ELSE IF value.err # Ok THEN Refused(value.err)
    ELSE Decoded(FundDistributionOf(value.value))

\* the arm of tag 2
unpack_set_dist_authority(rest) ==
    LET new_dist_authority == unpack_pubkey(rest) IN
    IF new_dist_authority.err # Ok THEN Refused(new_dist_authority.err)
    ELSE Decoded(SetDistAuthorityOf(new_dist_authority.key))

\* the arm of tag 3
unpack_begin_distribution(rest) ==
    LET num_recipients == split_at(rest, 2)
        value == le_integer(num_recipients.head, 2)
    IN
    IF num_recipients.panic THEN Refused(SplitAtPanic)
    ELSE IF value.err # Ok THEN Refused(value.err)
    ELSE Decoded(BeginDistributionOf(value.value))

\* DistInstruction::unpack
DistInstruction_unpack(bytes) ==
    IF Len(bytes) = 0 THEN Refused(InvalidInstruction)
    ELSE LET tag == Head(bytes)
             rest == Tail(bytes)
         IN
         CASE tag = 0 -> unpack_initialize_distribution(rest)
           [] tag = 1 -> unpack_fund_distribution(rest)
           [] tag = 2 -> unpack_set_dist_authority(rest)
           [] tag = 3 -> unpack_begin_distribution(rest)
           [] tag = 4 -> Decoded(DistributeOf)
           [] OTHER -> Refused(InvalidInstruction)

\* the outcome of no unpack_from_slice
NotUnpacked == [err |-> "none", dist |-> Distribution_default]

\* no record at hand
StoreIdle ==
    /\ record = Distribution_default
    /\ region = zeroed
    /\ unpacked = NotUnpacked

\* the client is not distributing
NoClient == [recipients |-> <<>>, skip |-> 0, chunk |-> 0, status |-> "idle"]

ClientIdle == client = NoClient

\* no instruction data in flight
CodecIdle ==
    /\ instruction = NoInstruction
    /\ input = <<>>
    /\ decoded = NotDecoded

----------------------------------------------------------------------------
(* The calls: what a transaction can carry.  A call on DistAddress varies   *)
(* every account and argument; the arguments that only a successful call   *)
(* reads vary in the calls whose accounts are the ones the client builds;  *)
(* a call on one of the other addresses varies the signature.              *)

\* batches of recipient token accounts, and batches whose first or second
\* account is not a token account of the token program
Batches ==
    UNION {[1..n -> Recipients] : n \in 0..MaxBatch} \cup {<<59>>, <<50, 59>>}

WellFormed(d, signed, token_program) ==
    d = DistAddress /\ signed /\ token_program = TokenProgramId

Plain(d, key, token_program) ==
    d = DistAddress \/ (key = 1 /\ token_program = TokenProgramId)

InitializeCalls ==
    {c \in [d : DistAddrs, signed : BOOLEAN, tp : TokenPrograms, token : Mints,
            seed : Seeds, project : ProjectNames, bump : Bumps,
            max : 0..MaxCap, authority : Keys] :
        /\ Plain(c.d, 1, c.tp)
        /\ WellFormed(c.d, c.signed, c.tp) \/ (c.max = 0 /\ c.authority = 1)
        /\ \/ c.seed = 1 /\ c.project = 2
           \/ WellFormed(c.d, c.signed, c.tp) /\ c.bump = 255 /\ c.max = 0 /\ c.authority = 1}

FundCalls ==
    {c \in [d : DistAddrs, source : Keys, signed : BOOLEAN, tp : TokenPrograms,
            source_token : SourceTokenAccounts, dist_token : DistTokenAccounts,
            amount : 0..MaxFunded, transfer_ok : BOOLEAN] :
        /\ Plain(c.d, c.source, c.tp)
        /\ c.d = DistAddress \/ (c.source_token = 41 /\ c.dist_token = 40)
        /\ \/ WellFormed(c.d, c.signed, c.tp) /\ c.source_token = 41 /\ c.dist_token = 40
           \/ c.amount = 1 /\ c.transfer_ok /\ c.source = 1}

SetAuthorityCalls ==
    {c \in [d : DistAddrs, signer : Keys, signed : BOOLEAN, new : Keys] :
        Plain(c.d, c.signer, TokenProgramId) /\ (c.d = DistAddress \/ c.new = 1)}

BeginCalls ==
    {c \in [d : DistAddrs, signer : Keys, signed : BOOLEAN, num : 0..MaxCap] :
        Plain(c.d, c.signer, TokenProgramId) /\ (c.d = DistAddress \/ c.num = 1)}

DistributeCalls ==
    {c \in [d : DistAddrs, signer : Keys, signed : BOOLEAN, tp : TokenPrograms,
            dist_token : DistTokenAccounts, batch : Batches, fail_at : 0..MaxBatch] :
        /\ Plain(c.d, c.signer, c.tp)
        /\ c.fail_at \in {0, Len(c.batch)}
        /\ \/ c.dist_token = VaultAccount
           \/ WellFormed(c.d, c.signed, c.tp) /\ Len(c.batch) = 1 /\ c.fail_at = 0
        /\ WellFormed(c.d, c.signed, c.tp) \/ (Len(c.batch) <= 1 /\ c.fail_at = 0)}

DoInitialize(accs, pd, c) ==
    process_initialize_distribution(accs, pd, ProgramId, c.signed, c.tp, c.token, c.d,
                                    c.seed, c.project, c.bump, c.max, c.authority)

DoFund(accs, pd, c) ==
    process_fund_distribution(accs, pd, ProgramId, c.signed, c.source_token, c.d,
                              c.dist_token, c.tp, U64(c.amount), c.transfer_ok)

DoSetAuthority(accs, pd, c) ==
    process_set_dist_authority(accs, pd, ProgramId, c.d, c.signer, c.signed, c.new)

DoBegin(accs, pd, c) ==
    process_begin_distribution(accs, pd, ProgramId, c.d, c.signer, c.signed, c.num)

DoDistribute(accs, pd, c) ==
    process_distribute(accs, pd, ProgramId, c.d, c.signer, c.signed, c.tp,
                       c.dist_token, c.batch, c.fail_at)

----------------------------------------------------------------------------
(* The state machine: one action per instruction, one transaction per step *)

Init ==
    /\ accounts = InitialAccounts
    /\ tokens = [payouts |-> [r \in Recipients |-> 0], vault |-> 0]
    /\ initialized = {}
    /\ begun = {}
    /\ last = "none"
    /\ CodecIdle
    /\ StoreIdle
    /\ ClientIdle

InitializeDistribution ==
    \E c \in InitializeCalls :
        LET out == DoInitialize(accounts, tokens, c) IN
        /\ accounts' = out.accounts
        /\ tokens' = out.tokens
        /\ initialized' = IF out.res = Ok THEN initialized \cup {c.d} ELSE initialized
        /\ begun' = begun
        /\ last' = out.res
        /\ UNCHANGED <<codec, store, client>>

\* funding stops at MaxFunded
FundDistribution ==
    \E c \in FundCalls :
        LET out == DoFund(accounts, tokens, c) IN
        /\ U64Small(RecordAt(accounts, c.d).funded_amount)
        /\ U64Value(RecordAt(accounts, c.d).funded_amount) + c.amount <= MaxFunded
        /\ accounts' = out.accounts
        /\ tokens' = out.tokens
        /\ UNCHANGED <<initialized, begun>>
        /\ last' = out.res
        /\ UNCHANGED <<codec, store, client>>

SetDistAuthority ==
    \E c \in SetAuthorityCalls :
        LET out == DoSetAuthority(accounts, tokens, c) IN
        /\ accounts' = out.accounts
        /\ tokens' = out.tokens
        /\ UNCHANGED <<initialized, begun>>
        /\ last' = out.res
        /\ UNCHANGED <<codec, store, client>>

BeginDistribution ==
    \E c \in BeginCalls :
        LET out == DoBegin(accounts, tokens, c) IN
        /\ accounts' = out.accounts
        /\ tokens' = out.tokens
        /\ initialized' = initialized
        /\ begun' = IF out.res = Ok THEN begun \cup {c.d} ELSE begun
        /\ last' = out.res
        /\ UNCHANGED <<codec, store, client>>

Distribute ==
    \E c \in DistributeCalls :
        LET out == DoDistribute(accounts, tokens, c) IN
        /\ accounts' = out.accounts
        /\ tokens' = out.tokens
        /\ UNCHANGED <<initialized, begun>>
        /\ last' = out.res
        /\ UNCHANGED <<codec, store, client>>

Next ==
    \/ InitializeDistribution
    \/ FundDistribution
    \/ SetDistAuthority
    \/ BeginDistribution
    \/ Distribute

Spec == Init /\ [][Next]_vars

\* The transactions that commit.  A transaction that fails is rolled back: it
\* leaves every account as it was, so the states an instruction can meet are
\* the states the committed transactions make.
Commits(A) == A /\ last' = Ok

Committed ==
    \/ Commits(InitializeDistribution)
    \/ Commits(FundDistribution)
    \/ Commits(SetDistAuthority)
    \/ Commits(BeginDistribution)
    \/ Commits(Distribute)

CommittedSpec == Init /\ [][Committed]_vars

\* The transactions up to the first one that is refused: a refused transaction
\* leaves every account as it was, so what follows it is what could have
\* followed the state before it.
Attempts(A) == last \in {"none", Ok} /\ A

UpToRefusal ==
    \/ Attempts(InitializeDistribution)
    \/ Attempts(FundDistribution)
    \/ Attempts(SetDistAuthority)
    \/ Attempts(BeginDistribution)
    \/ Attempts(Distribute)

RefusalSpec == Init /\ [][UpToRefusal]_vars

----------------------------------------------------------------------------
(* Vocabulary of the properties *)

Rec(d) == RecordAt(accounts, d)

\* d holds an initialized record of this program
IsRecord(d) == accounts[d].owner = ProgramId /\ unpack(accounts[d].data).err = Ok

Records == {d \in DistAddrs : IsRecord(d)}

\* the call names the stored authority and carries its signature
Authorized(c) == c.signed /\ c.signer = Rec(c.d).dist_authority

\* the address derived from the seeds the region at d stores
StoredAddress(d) ==
    create_pubkey(Rec(d).seed, Rec(d).project_name, Rec(d).bump, ProgramId)

HasRegion(d) == Len(accounts[d].data) = DISTRIBUTION_SIZE

----------------------------------------------------------------------------
(* C1: no recipient token account receives a payout more than once, whether *)
(* it is repeated inside one batch or named again in a later batch.        *)
C1_PaidAtMostOnce == \A r \in Recipients : tokens.payouts[r] <= 1

(* C2: in every reachable state sent_recipients <= max_recipients.         *)
C2_SentWithinCap ==
    \A d \in DistAddrs : Rec(d).sent_recipients <= Rec(d).max_recipients

C2_Witness ==
    /\ last = Ok
    /\ \E d \in Records : Rec(d).max_recipients > 0
                       /\ Rec(d).sent_recipients = Rec(d).max_recipients

\* the records whose sent_recipients has reached max_recipients
FullRecords ==
    {d \in Records : Rec(d).sent_recipients = Rec(d).max_recipients}

(* C3 as stated: once sent_recipients = max_recipients, any further         *)
(* Distribute call on the record fails with TooManyRecipients and leaves   *)
(* the record unchanged.                                                   *)
C3_AnyCallFails ==
    LET full == FullRecords IN
    \A c \in DistributeCalls :
        c.d \in full
        => /\ DoDistribute(accounts, tokens, c).res = TooManyRecipients
           /\ DoDistribute(accounts, tokens, c).accounts = accounts

(* C3 amended: once sent_recipients = max_recipients, a Distribute call     *)
(* that names the token program, is signed by the stored authority and     *)
(* names at least one recipient fails with TooManyRecipients; a call that  *)
(* names no recipient succeeds; no Distribute call changes the record or   *)
(* pays anyone.                                                            *)
C3_FullRecordRejects ==
    LET full == FullRecords IN
    \A c \in DistributeCalls :
        c.d \in full
        => LET out == DoDistribute(accounts, tokens, c) IN
           /\ out.accounts = accounts
           /\ out.tokens = tokens
           /\ (Authorized(c) /\ c.tp = TokenProgramId /\ Len(c.batch) >= 1)
              => out.res = TooManyRecipients
           /\ out.res = Ok => Len(c.batch) = 0

C3_Witness ==
    /\ last = TooManyRecipients
    /\ \E d \in Records : Rec(d).max_recipients > 0
                       /\ Rec(d).sent_recipients = Rec(d).max_recipients

(* C4: after BeginDistribution has locked num_recipients = n and n          *)
(* recipients have been paid, the next Distribute call naming at least one *)
(* recipient fails with the capacity error, also when n < max_recipients.  *)
C4_StopsAtNumRecipients ==
    LET served == {d \in Records : /\ Rec(d).num_recipients > 0
                                   /\ Rec(d).sent_recipients = Rec(d).num_recipients}
    IN
    \A c \in DistributeCalls :
        (c.d \in served /\ Authorized(c) /\ c.tp = TokenProgramId /\ Len(c.batch) >= 1)
        => DoDistribute(accounts, tokens, c).res = TooManyRecipients

\* the pairs of an initialized record and a key that is not its authority
OtherSigners ==
    {<<d, k>> \in Records \X Keys : k # Rec(d).dist_authority}

(* C5 as stated: FundDistribution, SetDistAuthority, BeginDistribution and  *)
(* Distribute, called on an initialized record with a signer that is not   *)
(* the stored authority, fail with UnauthorizedDistAuthority and leave the *)
(* record unchanged.                                                       *)
C5_EveryHandlerChecksAuthority ==
    LET others == OtherSigners IN
    /\ \A c \in FundCalls :
        (c.signed /\ <<c.d, c.source>> \in others)
        => /\ DoFund(accounts, tokens, c).res = UnauthorizedDistAuthority
           /\ DoFund(accounts, tokens, c).accounts = accounts
    /\ \A c \in SetAuthorityCalls :
        (c.signed /\ <<c.d, c.signer>> \in others)
        => /\ DoSetAuthority(accounts, tokens, c).res = UnauthorizedDistAuthority
           /\ DoSetAuthority(accounts, tokens, c).accounts = accounts
    /\ \A c \in BeginCalls :
        (c.signed /\ <<c.d, c.signer>> \in others)
        => /\ DoBegin(accounts, tokens, c).res = UnauthorizedDistAuthority
           /\ DoBegin(accounts, tokens, c).accounts = accounts
    /\ \A c \in DistributeCalls :
        (c.signed /\ c.tp = TokenProgramId /\ <<c.d, c.signer>> \in others)
        => /\ DoDistribute(accounts, tokens, c).res = UnauthorizedDistAuthority
           /\ DoDistribute(accounts, tokens, c).accounts = accounts

(* C5 amended: SetDistAuthority, BeginDistribution and Distribute (the      *)
(* last with the token program named), called on an initialized record     *)
(* with a signer that is not the stored authority, fail with               *)
(* UnauthorizedDistAuthority and leave every account and payout unchanged; *)
(* FundDistribution checks no authority: its result does not depend on who *)
(* signs as the source.                                                    *)
C5_AuthorityChecked ==
    LET others == OtherSigners
        refused == Fail(UnauthorizedDistAuthority, accounts, tokens)
    IN
    /\ \A c \in SetAuthorityCalls :
        (c.signed /\ <<c.d, c.signer>> \in others)
        => DoSetAuthority(accounts, tokens, c) = refused
    /\ \A c \in BeginCalls :
        (c.signed /\ <<c.d, c.signer>> \in others)
        => DoBegin(accounts, tokens, c) = refused
    /\ \A c \in DistributeCalls :
        (c.signed /\ c.tp = TokenProgramId /\ <<c.d, c.signer>> \in others)
        => DoDistribute(accounts, tokens, c) = refused
    /\ \A c \in FundCalls : \A k \in Keys \ {c.source} :
        DoFund(accounts, tokens, [c EXCEPT !.source = k]) = DoFund(accounts, tokens, c)

C5_Witness ==
    /\ last = UnauthorizedDistAuthority
    /\ Records # {}

(* C6: BeginDistribution succeeds at most once per record: after one        *)
(* successful call every later call, made by the authority, fails with     *)
(* DistributionAlreadyStarted, whatever num_recipients either call carried.*)
C6_BeginAtMostOnce ==
    \A c \in BeginCalls :
        (c.d \in begun /\ Authorized(c))
        => DoBegin(accounts, tokens, c).res = DistributionAlreadyStarted

(* C7: in every step num_recipients keeps its value or goes from 0 to a     *)
(* positive value; once positive it never changes.                         *)
C7_NumRecipientsSetOnce ==
    [][\A d \in DistAddrs :
          \/ RecordAt(accounts', d).num_recipients = Rec(d).num_recipients
          \/ Rec(d).num_recipients = 0 /\ RecordAt(accounts', d).num_recipients > 0]_vars

C7_Witness ==
    /\ last = DistributionAlreadyStarted
    /\ \E d \in Records : Rec(d).num_recipients > 0

\* the address the call's seeds derive is not the supplied address
InitializeMismatch(c) ==
    LET pda == create_pubkey(c.seed, c.project, c.bump, ProgramId) IN
    pda.err # Ok \/ pda.key # c.d

\* the address the stored seeds derive is not the address of the region
StoredMismatch(d) ==
    HasRegion(d) /\ (StoredAddress(d).err # Ok \/ StoredAddress(d).key # d)

MisplacedRegions == {d \in DistAddrs : StoredMismatch(d)}

AddressErrors == {InvalidSeeds, InvalidAccountData}

RejectionOf(d) ==
    IF accounts[d].owner # ProgramId THEN IncorrectProgramId ELSE UninitializedAccount

C9_ErrorsChangeNothing ==
    [][last' # Ok
       => /\ accounts' = accounts
          /\ tokens' = tokens
          /\ initialized' = initialized
          /\ begun' = begun]_vars

\* a batch ran into the cap after its first recipients had been served
C9_Witness ==
    /\ last = TooManyRecipients
    /\ \E d \in Records : Rec(d).sent_recipients < Rec(d).max_recipients

(* C10: a region of the program has version Uninitialized exactly when no   *)
(* InitializeDistribution has succeeded on it, and on an account without a *)
(* successful InitializeDistribution FundDistribution, SetDistAuthority,   *)
(* BeginDistribution and Distribute all fail and change nothing.           *)
C10_UninitializedRejected ==
    /\ \A d \in DistAddrs :
        /\ d \in initialized => accounts[d].owner = ProgramId
        /\ accounts[d].owner = ProgramId
           => (Rec(d).version = UNINITIALIZED_VERSION <=> d \notin initialized)
    /\ \A c \in FundCalls : c.d \notin initialized
        => LET out == DoFund(accounts, tokens, c) IN out.res # Ok /\ out.accounts = accounts
    /\ \A c \in SetAuthorityCalls : c.d \notin initialized
        => LET out == DoSetAuthority(accounts, tokens, c) IN
           out.res # Ok /\ out.accounts = accounts
    /\ \A c \in BeginCalls : c.d \notin initialized
        => LET out == DoBegin(accounts, tokens, c) IN out.res # Ok /\ out.accounts = accounts
    /\ \A c \in DistributeCalls : c.d \notin initialized
        => LET out == DoDistribute(accounts, tokens, c) IN
           out.res # Ok /\ out.accounts = accounts

C10_Witness ==
    /\ last = UninitializedAccount
    /\ \E d \in DistAddrs : accounts[d].owner = ProgramId /\ d \notin initialized

----------------------------------------------------------------------------
(* Funding up to the limit of a u64.  funded_amount is cumulative and never *)
(* decreases, so a record that is funded and paid out again and again      *)
(* comes to hold any u64; the states below start from such records.        *)

\* u64::MAX - k, for k below 256
NearMax(k) == [i \in 1..U64_BYTES |-> IF i = 1 THEN 255 - k ELSE 255]

\* the funded amounts a record starts from: small ones and ones close to u64::MAX
FundedLevels ==
    {U64(n) : n \in 0..MaxFunded} \cup {NearMax(k) : k \in 0..(MaxFunded + 1)}

\* a record of the program at DistAddress as InitializeDistribution,
\* FundDistribution and BeginDistribution leave it
FundedRecord(authority, funded, num_recipients) ==
    [init(Distribution_default, 1, 2, 255, authority, 15, MaxCap, num_recipients)
        EXCEPT !.funded_amount = funded]

FundInit ==
    /\ \E authority \in Keys : \E funded \in FundedLevels : \E num \in 0..MaxCap :
        accounts = [InitialAccounts EXCEPT ![DistAddress] =
                        [owner |-> ProgramId,
                         data |-> pack_into_slice(FundedRecord(authority, funded, num))]]
    /\ tokens = [payouts |-> [r \in Recipients |-> 0], vault |-> 0]
    /\ initialized = {DistAddress}
    /\ begun = {d \in {DistAddress} : has_started(RecordAt(accounts, d))}
    /\ last = "none"
    /\ CodecIdle
    /\ StoreIdle
    /\ ClientIdle

\* FundDistribution with no cap on funded_amount; the amount deposited over a
\* run stops at MaxFunded + 2, enough to pass u64::MAX from every level
FundToTheLimit ==
    \E c \in FundCalls :
        LET out == DoFund(accounts, tokens, c) IN
        /\ tokens.vault + c.amount <= MaxFunded + 2
        /\ accounts' = out.accounts
        /\ tokens' = out.tokens
        /\ UNCHANGED <<initialized, begun>>
        /\ last' = out.res
        /\ UNCHANGED <<codec, store, client>>

FundNext == FundToTheLimit

FundSpec == FundInit /\ [][FundNext]_vars

\* x is within 255 of u64::MAX, and how far below it
IsNearMax(x) == \A i \in 2..U64_BYTES : x[i] = 255
Headroom(x) == 255 - x[1]

\* x + n, for a number n below 256, is above u64::MAX
AboveMax(x, n) == IsNearMax(x) /\ x[1] + n > 255

\* y is x + n, for a number n below 256 with x + n within u64
IsSum(y, x, n) ==
    IF IsNearMax(x) THEN IsNearMax(y) /\ Headroom(y) = Headroom(x) - n
    ELSE U64Small(x) /\ U64Small(y) /\ U64Value(y) = U64Value(x) + n

\* the FundDistribution calls on d that succeed in the current state
AcceptedFunds(d) ==
    {c \in FundCalls : c.d = d /\ DoFund(accounts, tokens, c).res = Ok}

\* funded_amount of d after the calls c1 and then c2, both required to succeed
FundedAfter(d, c1, c2) ==
    LET first == DoFund(accounts, tokens, c1)
        second == DoFund(first.accounts, first.tokens, c2)
    IN [ok |-> first.res = Ok /\ second.res = Ok,
        funded_amount |-> RecordAt(second.accounts, d).funded_amount]

(* C11: two successful FundDistribution calls with amounts a1 and a2 leave  *)
(* funded_amount at its prior value plus a1 + a2 exactly, and in either    *)
(* order of the two calls the result is the same.                          *)
C11_FundsAddUp ==
    \A d \in Records :
        LET funds == AcceptedFunds(d) IN
        \A c1 \in funds : \A c2 \in {c \in funds : c.amount >= c1.amount} :
            LET one == FundedAfter(d, c1, c2)
                other == FundedAfter(d, c2, c1)
            IN one.ok =>
               /\ IsSum(one.funded_amount, Rec(d).funded_amount, c1.amount + c2.amount)
               /\ other.ok
               /\ other.funded_amount = one.funded_amount

\* a record funded in this run on which two more fundings of different
\* positive amounts succeed one after the other
C11_Witness ==
    /\ last = Ok
    /\ tokens.vault > 0
    /\ \E d \in Records : \E c1, c2 \in AcceptedFunds(d) :
            /\ c1.amount > 0 /\ c2.amount > c1.amount
            /\ FundedAfter(d, c1, c2).ok

\* the call passes every check of process_fund_distribution that precedes
\* the transfer, and the token program accepts the transfer
FundReachesRecord(c) ==
    /\ c.d \in Records
    /\ c.signed /\ c.tp = TokenProgramId
    /\ c.source_token = 41 /\ c.dist_token = 40
    /\ c.transfer_ok

(* C12: a FundDistribution whose amount would take funded_amount above      *)
(* 2^64 - 1 aborts the transaction: nothing is stored, the record keeps    *)
(* its funded_amount and the vault its balance; a FundDistribution within  *)
(* the range stores the exact sum.                                         *)
C12_OverflowAborts ==
    \A c \in FundCalls :
        FundReachesRecord(c) =>
            LET out == DoFund(accounts, tokens, c)
                funded == Rec(c.d).funded_amount
            IN IF AboveMax(funded, c.amount)
               THEN /\ out.res = ArithmeticPanic
                    /\ out.accounts = accounts /\ out.tokens = tokens
               ELSE /\ out.res = Ok
                    /\ IsSum(RecordAt(out.accounts, c.d).funded_amount, funded, c.amount)

\* a funding has just been aborted on a record within reach of u64::MAX
C12_Witness ==
    /\ last = ArithmeticPanic
    /\ \E d \in Records : IsNearMax(Rec(d).funded_amount)

----------------------------------------------------------------------------
(* The share.  BeginDistribution accepts any u16 as num_recipients and      *)
(* FundDistribution any u64, so the records below are ones Distribute can  *)
(* meet; their vault holds what was funded.                                *)

ShareFunds ==
    {0, 1, 2, 3, 5, 7, 10, 99, 100, 101, 255, 256, 257, 1000, 65535, 65536, 65537, 16777215}

ShareNums == {0, 1, 2, 3, 7, 255, 256, 65535}

ShareInit ==
    /\ \E funded \in ShareFunds : \E num \in ShareNums :
        /\ accounts = [InitialAccounts EXCEPT ![DistAddress] =
                        [owner |-> ProgramId,
                         data |-> pack_into_slice(FundedRecord(1, U64(funded), num))]]
        /\ tokens = [payouts |-> [r \in Recipients |-> 0], vault |-> funded]
    /\ initialized = {DistAddress}
    /\ begun = {d \in {DistAddress} : has_started(RecordAt(accounts, d))}
    /\ last = "none"
    /\ CodecIdle
    /\ StoreIdle
    /\ ClientIdle

ShareNext == Distribute

ShareSpec == ShareInit /\ [][ShareNext]_vars

\* floor(funded / num), and 0 for num = 0, on numbers
FloorShare(funded, num) == IF num = 0 THEN 0 ELSE funded \div num

(* C13: recipient_share is floor(funded_amount / num_recipients) when       *)
(* num_recipients > 0 and 0 when num_recipients = 0, so that for           *)
(* num_recipients > 0, num * share <= funded < num * (share + 1); every    *)
(* payout takes exactly that amount out of the vault.                      *)
C13_ShareIsFloor ==
    \A d \in Records :
        LET funded == U64Value(Rec(d).funded_amount)
            num == Rec(d).num_recipients
            share == recipient_share(Rec(d))
        IN
        /\ U64Small(share)
        /\ U64Value(share) = FloorShare(funded, num)
        /\ num > 0 => /\ num * U64Value(share) <= funded
                      /\ funded < num * (U64Value(share) + 1)
        /\ tokens.vault = funded - Rec(d).sent_recipients * FloorShare(funded, num)

\* a payout of a share that num_recipients does not divide funded_amount into
C13_Witness ==
    /\ last = Ok
    /\ \E d \in Records :
        /\ Rec(d).num_recipients > 1
        /\ U64Value(Rec(d).funded_amount) % Rec(d).num_recipients # 0
        /\ Rec(d).sent_recipients > 0
        /\ tokens.vault < U64Value(Rec(d).funded_amount)

----------------------------------------------------------------------------
(* The lifecycle *)

\* the started records: BeginDistribution has set a positive num_recipients
Started == {d \in Records : has_started(Rec(d))}

\* the share of the record at d once a call has left `out` behind
ShareAfter(out, d) == recipient_share(RecordAt(out.accounts, d))

(* C14: once BeginDistribution has succeeded with a positive                *)
(* num_recipients, no instruction changes recipient_share: every payout of *)
(* the distribution is the same amount, whatever calls follow, further     *)
(* FundDistribution calls included.                                        *)
C14_ShareLockedAtBegin ==
    LET started == Started
        share == [d \in started |-> recipient_share(Rec(d))]
    IN
    /\ \A c \in FundCalls : c.d \in started
        => ShareAfter(DoFund(accounts, tokens, c), c.d) = share[c.d]
    /\ \A c \in SetAuthorityCalls : c.d \in started
        => ShareAfter(DoSetAuthority(accounts, tokens, c), c.d) = share[c.d]
    /\ \A c \in BeginCalls : c.d \in started
        => ShareAfter(DoBegin(accounts, tokens, c), c.d) = share[c.d]
    /\ \A c \in DistributeCalls : c.d \in started
        => ShareAfter(DoDistribute(accounts, tokens, c), c.d) = share[c.d]

(* C15: payouts happen only after the distribution has started: in every    *)
(* reachable state sent_recipients > 0 implies num_recipients > 0.         *)
C15_NoPayoutBeforeBegin ==
    \A d \in Records : Rec(d).sent_recipients > 0 => Rec(d).num_recipients > 0

----------------------------------------------------------------------------
(* InitializeDistribution *)

\* the record InitializeDistribution is to leave behind for the call c
InitializedRecord(c) ==
    [version |-> VERSION_1, seed |-> c.seed, project_name |-> c.project, bump |-> c.bump,
     dist_authority |-> c.authority, token |-> c.token, max_recipients |-> c.max,
     num_recipients |-> 0, funded_amount |-> U64(0), sent_recipients |-> 0]

(* C16: a successful InitializeDistribution leaves, in an account of        *)
(* DISTRIBUTION_SIZE bytes owned by the program at the derived address, a  *)
(* record with version V1, the seed, project name and bump of the call,    *)
(* its dist_authority, the key of the token account supplied, its          *)
(* max_recipients, and num_recipients = funded_amount = sent_recipients =  *)
(* 0; it succeeds only on an address that is not in use.                   *)
C16_InitializeStoresArguments ==
    \A c \in InitializeCalls :
        LET out == DoInitialize(accounts, tokens, c) IN
        out.res = Ok =>
            /\ accounts[c.d].owner = SystemProgramId /\ accounts[c.d].data = <<>>
            /\ ~InitializeMismatch(c)
            /\ out.accounts[c.d].owner = ProgramId
            /\ Len(out.accounts[c.d].data) = DISTRIBUTION_SIZE
            /\ unpack(out.accounts[c.d].data) = [err |-> Ok, dist |-> InitializedRecord(c)]
            /\ \A d \in DistAddrs \ {c.d} : out.accounts[d] = accounts[d]
            /\ out.tokens = tokens

\* an InitializeDistribution has just succeeded and left a fresh record
C16_Witness ==
    /\ last = Ok
    /\ \E d \in Records :
        /\ d \in initialized
        /\ \E c \in InitializeCalls :
            c.d = d /\ c.max > 0 /\ c.authority = 2 /\ Rec(d) = InitializedRecord(c)

\* the call passes the checks that precede the derivation of the address
InitializeReachesAddress(c) == c.signed /\ c.tp = TokenProgramId

----------------------------------------------------------------------------
(* SetDistAuthority hands the distribution over *)

\* the authorised calls signed by key on the record at d, the token program in place
SetAuthoritySignedBy(d, key) ==
    {f \in SetAuthorityCalls : f.d = d /\ f.signed /\ f.signer = key}

BeginSignedBy(d, key) ==
    {f \in BeginCalls : f.d = d /\ f.signed /\ f.signer = key}

DistributeSignedBy(d, key) ==
    {f \in DistributeCalls : f.d = d /\ f.signed /\ f.signer = key /\ f.tp = TokenProgramId}

\* the results of every instruction with an authority check, signed by key, on d
ResultsSignedBy(accs, pd, d, key) ==
    {DoSetAuthority(accs, pd, f).res : f \in SetAuthoritySignedBy(d, key)}
    \cup {DoBegin(accs, pd, f).res : f \in BeginSignedBy(d, key)}
    \cup {DoDistribute(accs, pd, f).res : f \in DistributeSignedBy(d, key)}

(* C18: after a successful SetDistAuthority(new) the stored dist_authority  *)
(* is new and nothing else of the record has changed; from then on a       *)
(* signed SetDistAuthority, BeginDistribution or Distribute (token program *)
(* in place) whose signer is the previous authority, when that differs     *)
(* from new, fails with UnauthorizedDistAuthority, and none signed by new  *)
(* fails with it.                                                          *)
C18_AuthorityHandedOver ==
    \A c \in SetAuthorityCalls :
        LET out == DoSetAuthority(accounts, tokens, c) IN
        (IsRecord(c.d) /\ out.res = Ok) =>
            LET previous == Rec(c.d).dist_authority IN
            /\ RecordAt(out.accounts, c.d) = [Rec(c.d) EXCEPT !.dist_authority = c.new]
            /\ c.signer = previous
            /\ previous # c.new =>
                ResultsSignedBy(out.accounts, out.tokens, c.d, previous)
                    = {UnauthorizedDistAuthority}
            /\ UnauthorizedDistAuthority \notin
                ResultsSignedBy(out.accounts, out.tokens, c.d, c.new)

\* an initialized record whose authority can hand it over to the other key,
\* every instruction signed by that other key being refused until then
C18_Witness ==
    /\ last = Ok
    /\ DistAddress \in Records
    /\ DistAddress \in initialized
    /\ \E c \in SetAuthoritySignedBy(DistAddress, Rec(DistAddress).dist_authority) :
        /\ c.new # c.signer
        /\ DoSetAuthority(accounts, tokens, c).res = Ok
        /\ \E k \in Keys \ {Rec(DistAddress).dist_authority} :
            ResultsSignedBy(accounts, tokens, DistAddress, k) = {UnauthorizedDistAuthority}

----------------------------------------------------------------------------
(* Instruction data: packed by the client, cut short or retagged on the    *)
(* way, unpacked by process_instruction                                     *)

\* the instructions a client packs: every variant, integers of one and of
\* several bytes, amounts below 2^31
Instructions ==
    {InitializeDistributionOf(PubkeyBytes(q[1]), PubkeyBytes(q[2]), q[3], q[4], PubkeyBytes(q[5])) :
        q \in {<<1, 2, 255, 1, 1>>, <<1, 2, 254, 258, 2>>, <<2, 1, 0, 65535, 1>>, <<9, 9, 7, 0, 2>>}}
    \cup {FundDistributionOf(n) : n \in {0, 1, 258, 16909060, 2147483647}}
    \cup {SetDistAuthorityOf(PubkeyBytes(k)) : k \in Keys}
    \cup {BeginDistributionOf(n) : n \in {0, 1, 258, 65535}}
    \cup {DistributeOf}

\* first bytes that are no tag
UnknownTags == {5, 128, 255}

CodecInit ==
    /\ accounts = InitialAccounts
    /\ tokens = [payouts |-> [r \in Recipients |-> 0], vault |-> 0]
    /\ initialized = {}
    /\ begun = {}
    /\ last = "none"
    /\ CodecIdle
    /\ StoreIdle
    /\ ClientIdle

\* the client packs an instruction
PackInstruction ==
    \E x \in Instructions :
        /\ instruction' = x
        /\ input' = DistInstruction_pack(x)
        /\ decoded' = NotDecoded
        /\ UNCHANGED <<ledger, store, client>>

\* the instruction data arrives one byte short
DropLastByte ==
    /\ Len(input) > 0
    /\ input' = SubSeq(input, 1, Len(input) - 1)
    /\ decoded' = NotDecoded
    /\ UNCHANGED <<ledger, store, client, instruction>>

\* the instruction data arrives with a first byte that is no tag
Retag ==
    /\ Len(input) > 0
    /\ input[1] \notin UnknownTags
    /\ \E t \in UnknownTags : input' = [input EXCEPT ![1] = t]
    /\ decoded' = NotDecoded
    /\ UNCHANGED <<ledger, store, client, instruction>>

\* process_instruction unpacks the instruction data
UnpackInput ==
    /\ decoded = NotDecoded
    /\ decoded' = DistInstruction_unpack(input)
    /\ UNCHANGED <<ledger, store, client, instruction, input>>

CodecNext ==
    \/ PackInstruction
    \/ DropLastByte
    \/ Retag
    \/ UnpackInput

CodecSpec == CodecInit /\ [][CodecNext]_vars

\* the instruction data is what pack made of the instruction
Packed == instruction # NoInstruction /\ input = DistInstruction_pack(instruction)

\* the tag of each variant
TagOf(x) ==
    CASE x.variant = "InitializeDistribution" -> 0
      [] x.variant = "FundDistribution" -> 1
      [] x.variant = "SetDistAuthority" -> 2
      [] x.variant = "BeginDistribution" -> 3
      [] x.variant = "Distribute" -> 4

\* the bytes of b from position from hold the Pubkey key
HoldsKey(b, from, key) == \A i \in 1..PUBKEY_BYTES : b[from + i - 1] = key[i]

\* b is the tag of x, then the fields of x in declared order, integers
\* little-endian, and nothing more
Layout(b, x) ==
    /\ b[1] = TagOf(x)
    /\ CASE x.variant = "InitializeDistribution" ->
            /\ Len(b) = 100
            /\ HoldsKey(b, 2, x.seed)
            /\ HoldsKey(b, 34, x.project_name)
            /\ b[66] = x.seed_bump
            /\ b[67] + 256 * b[68] = x.max_recipients
            /\ HoldsKey(b, 69, x.dist_authority)
         [] x.variant = "FundDistribution" ->
            /\ Len(b) = 9
            /\ b[5] < 128 /\ \A i \in 6..9 : b[i] = 0
            /\ b[2] + 256 * b[3] + 65536 * b[4] + 16777216 * b[5] = x.amount
         [] x.variant = "SetDistAuthority" ->
            /\ Len(b) = 33
            /\ HoldsKey(b, 2, x.new_dist_authority)
         [] x.variant = "BeginDistribution" ->
            /\ Len(b) = 3
            /\ b[2] + 256 * b[3] = x.num_recipients
         [] x.variant = "Distribute" -> Len(b) = 1

(* C19: the data pack makes of an instruction of any of the five variants   *)
(* starts with the variant's tag 0..4, followed by the fields in declared  *)
(* order with the integers little-endian, and unpack gives the instruction *)
(* back from it.                                                            *)
C19_RoundTrip ==
    Packed =>
        /\ Layout(input, instruction)
        /\ decoded # NotDecoded => decoded = Decoded(instruction)

\* an InitializeDistribution whose max_recipients takes two bytes has been
\* packed and unpacked
C19_Witness ==
    /\ Packed
    /\ instruction.variant = "InitializeDistribution"
    /\ instruction.max_recipients = 258
    /\ instruction.seed # instruction.project_name
    /\ decoded = Decoded(instruction)

\* the bytes a tag requires after it
RequiredLength(tag) ==
    CASE tag = 0 -> 99
      [] tag = 1 -> 8
      [] tag = 2 -> 32
      [] tag = 3 -> 2
      [] tag = 4 -> 0

\* empty, or the first byte is no tag, or too short for the tag
Malformed(b) ==
    \/ Len(b) = 0
    \/ b[1] \notin 0..4
    \/ Len(b) - 1 < RequiredLength(b[1])

(* C20: unpack returns InvalidInstruction, and does not abort, for every    *)
(* buffer that is empty, starts with a byte that is not a tag 0..4, or is  *)
(* shorter after the tag than the tag requires (99, 8, 32, 2 bytes for the *)
(* tags 0, 1, 2, 3).                                                        *)
C20_MalformedIsInvalidInstruction ==
    (decoded # NotDecoded /\ Malformed(input)) => decoded.err = InvalidInstruction

----------------------------------------------------------------------------
(* The record codec: a handler packs a record into the account's data, the *)
(* next one unpacks it                                                      *)

\* u16 and u64 values of one and of several bytes, the largest among them
U16Samples == {0, 1, 258, 65535}
U64Samples == {U64(0), U64(258), <<1, 2, 3, 4, 5, 6, 7, 8>>, [i \in 1..U64_BYTES |-> 255]}

\* the records a handler packs: all of version 1
RecordValues ==
    [version : {VERSION_1}, seed : {1}, project_name : {2}, bump : {0, 255},
     dist_authority : Keys, token : Mints, max_recipients : U16Samples,
     num_recipients : U16Samples, funded_amount : U64Samples, sent_recipients : U16Samples]

\* what a region can hold in its first byte
VersionBytes == {UNINITIALIZED_VERSION, VERSION_1, 2, 255}

StoreInit ==
    /\ accounts = InitialAccounts
    /\ tokens = [payouts |-> [r \in Recipients |-> 0], vault |-> 0]
    /\ initialized = {}
    /\ begun = {}
    /\ last = "none"
    /\ CodecIdle
    /\ ClientIdle
    /\ record \in RecordValues
    /\ region = zeroed
    /\ unpacked = NotUnpacked

\* Pack::pack of the record into the region
PackRecord ==
    /\ region # pack_into_slice(record)
    /\ region' = pack(record, region).data
    /\ unpacked' = NotUnpacked
    /\ UNCHANGED <<ledger, codec, client, record>>

\* the region comes with another first byte
SetVersionByte ==
    /\ \E v \in VersionBytes \ {region[1]} : region' = [region EXCEPT ![1] = v]
    /\ unpacked' = NotUnpacked
    /\ UNCHANGED <<ledger, codec, client, record>>

\* the region is that of a freshly created account
ZeroFill ==
    /\ region # zeroed
    /\ region' = zeroed
    /\ unpacked' = NotUnpacked
    /\ UNCHANGED <<ledger, codec, client, record>>

UnpackRegion ==
    /\ unpacked = NotUnpacked
    /\ unpacked' = unpack_from_slice(region)
    /\ UNCHANGED <<ledger, codec, client, record, region>>

StoreNext ==
    \/ PackRecord
    \/ SetVersionByte
    \/ ZeroFill
    \/ UnpackRegion

StoreSpec == StoreInit /\ [][StoreNext]_vars

\* the region is what pack made of the record
Stored == region = pack_into_slice(record)

\* b holds the fields of dist at the offsets of the fixed layout: a cell for
\* the version and for each of seed, project name, bump, authority and token,
\* then max_recipients, num_recipients, funded_amount and sent_recipients,
\* least significant byte first, and nothing more
RecordLayout(b, dist) ==
    /\ Len(b) = DISTRIBUTION_SIZE
    /\ b[1] = dist.version /\ b[2] = dist.seed /\ b[3] = dist.project_name
    /\ b[4] = dist.bump /\ b[5] = dist.dist_authority /\ b[6] = dist.token
    /\ b[7] + 256 * b[8] = dist.max_recipients
    /\ b[9] + 256 * b[10] = dist.num_recipients
    /\ \A i \in 1..U64_BYTES : b[10 + i] = dist.funded_amount[i]
    /\ b[19] + 256 * b[20] = dist.sent_recipients

(* C21: the region pack makes of a record of version 1 has exactly the      *)
(* fixed-size layout, and unpacking it gives the record back; unpacking a  *)
(* zero-filled region gives the default (uninitialized) record, without    *)
(* error.                                                                   *)
C21_RecordRoundTrip ==
    /\ (Stored /\ record.version = VERSION_1) =>
        /\ RecordLayout(region, record)
        /\ unpacked # NotUnpacked => unpacked = [err |-> Ok, dist |-> record]
    /\ (region = zeroed /\ unpacked # NotUnpacked) =>
        unpacked = [err |-> Ok, dist |-> Distribution_default]

\* a record whose integers fill their bytes has been packed and unpacked
C21_Witness ==
    /\ Stored
    /\ record.version = VERSION_1
    /\ record.max_recipients = 258 /\ record.num_recipients = 1
    /\ record.funded_amount = <<1, 2, 3, 4, 5, 6, 7, 8>>
    /\ unpacked = [err |-> Ok, dist |-> record]

(* C22: unpacking a region dispatches on its first byte: 0 gives the        *)
(* default record whatever the other bytes hold, 1 gives the record the    *)
(* fixed layout spells, every other value fails with InvalidAccountData.   *)
C22_VersionDispatch ==
    unpacked # NotUnpacked =>
        /\ region[1] = UNINITIALIZED_VERSION =>
            unpacked = [err |-> Ok, dist |-> Distribution_default]
        /\ region[1] = VERSION_1 =>
            unpacked.err = Ok /\ RecordLayout(region, unpacked.dist)
        /\ region[1] \notin {UNINITIALIZED_VERSION, VERSION_1} =>
            unpacked.err = InvalidAccountData

\* a region that holds a record under the version byte 0, or under a version
\* byte that is neither 0 nor 1, has been unpacked
C22_Witness ==
    /\ unpacked # NotUnpacked
    /\ region # zeroed
    /\ \/ region[1] = UNINITIALIZED_VERSION /\ unpacked.err = Ok
       \/ region[1] = 255 /\ unpacked.err = InvalidAccountData

----------------------------------------------------------------------------
(* FundDistribution: the checks before the transfer *)

\* the call passes the checks that precede those of the token accounts
FundReachesTokenAccounts(c) ==
    c.signed /\ accounts[c.d].owner = ProgramId /\ c.tp = TokenProgramId

\* one of the two token accounts is not the token program's
ForeignTokenAccount(c) ==
    \/ TokenAccountOwner(c.source_token) # TokenProgramId
    \/ TokenAccountOwner(c.dist_token) # TokenProgramId

(* C23: FundDistribution fails with MissingRequiredSignature when the       *)
(* source account is not a signer, and with InvalidArgument when (the call *)
(* signed, the distribution account the program's, the token program in    *)
(* place) the source or the destination token account is not owned by the  *)
(* token program; in both cases no transfer is invoked and the record, its *)
(* funded_amount included, and the token balances stay as they are.        *)
C23_FundRejections ==
    \A c \in FundCalls :
        LET out == DoFund(accounts, tokens, c) IN
        /\ ~c.signed => out = Fail(MissingRequiredSignature, accounts, tokens)
        /\ (FundReachesTokenAccounts(c) /\ ForeignTokenAccount(c))
           => out = Fail(InvalidArgument, accounts, tokens)
        /\ out.res \in {MissingRequiredSignature, InvalidArgument}
           => out.invoked = <<>> /\ out.accounts = accounts /\ out.tokens = tokens

\* a funded record on which a signed funding into an account that is not a
\* token account is refused
C23_Witness ==
    /\ last = Ok
    /\ DistAddress \in Records
    /\ Rec(DistAddress).funded_amount # U64(0)
    /\ \E c \in FundCalls :
        /\ c.signed /\ c.d = DistAddress /\ c.dist_token = 59 /\ c.source_token = 41
        /\ DoFund(accounts, tokens, c).res = InvalidArgument

----------------------------------------------------------------------------
(* Distribute: what a successful call does *)

\* the transfer Distribute is to ask for on behalf of the recipient account r,
\* out of the token account the call supplies, with the record before the call
PayoutOf(c, dist, r) ==
    [program |-> c.tp, source |-> c.dist_token, destination |-> r,
     amount |-> recipient_share(dist),
     seeds |-> <<dist.seed, dist.project_name, dist.bump>>]

(* C24: a successful Distribute naming k recipient accounts raises          *)
(* sent_recipients by exactly k, changes nothing else of the record, and   *)
(* asks for exactly k transfers out of the distribution token account      *)
(* supplied, one per recipient in the order given, each of the             *)
(* recipient_share of the record as it was before the call and signed with *)
(* the seeds, project name and bump of the record.                         *)
C24_DistributePaysEachInTurn ==
    \A c \in DistributeCalls :
        LET out == DoDistribute(accounts, tokens, c)
            k == Len(c.batch)
        IN
        (IsRecord(c.d) /\ out.res = Ok) =>
            LET dist == Rec(c.d) IN
            /\ RecordAt(out.accounts, c.d)
                = [dist EXCEPT !.sent_recipients = dist.sent_recipients + k]
            /\ out.invoked = [i \in 1..k |-> PayoutOf(c, dist, c.batch[i])]
            /\ out.tokens.vault = tokens.vault - k * U64Value(recipient_share(dist))

\* two recipients have been paid a positive share each, the last Distribute
\* having succeeded
C24_Witness ==
    /\ last = Ok
    /\ DistAddress \in Records
    /\ Rec(DistAddress).sent_recipients = 2
    /\ \A r \in Recipients : tokens.payouts[r] = 1

----------------------------------------------------------------------------
(* Distribute: the capacity check *)

\* the call reaches the loop over the recipient accounts
DistributeReachesLoop(c) ==
    IsRecord(c.d) /\ Authorized(c) /\ c.tp = TokenProgramId

\* the recipients a record has room for
Room(dist) == dist.max_recipients - dist.sent_recipients

\* the turn of the j-th account of the batch passes its owner check and its
\* transfer, the turns before it having passed
TurnPasses(c, dist, j) ==
    /\ TokenAccountOwner(c.batch[j]) = c.tp
    /\ j # c.fail_at
    /\ c.dist_token = VaultAccount
    /\ U64Small(recipient_share(dist))
    /\ j * U64Value(recipient_share(dist)) <= tokens.vault

----------------------------------------------------------------------------
(* FundDistribution: where the tokens go *)

\* a token account of the token program that is not the distribution's
OtherTokenAccount == 42

\* a fresh record at DistAddress, its vault empty
VaultInit ==
    /\ accounts = [InitialAccounts EXCEPT ![DistAddress] =
                      [owner |-> ProgramId,
                       data |-> pack_into_slice(FundedRecord(1, U64(0), 0))]]
    /\ tokens = [payouts |-> [r \in Recipients |-> 0], vault |-> 0]
    /\ initialized = {DistAddress}
    /\ begun = {}
    /\ last = "none"
    /\ CodecIdle
    /\ StoreIdle
    /\ ClientIdle

\* the fundings of the record at DistAddress, into any account a caller can
\* name as the destination
VaultFundCalls ==
    [d : {DistAddress}, source : {1}, signed : BOOLEAN, tp : {TokenProgramId},
     source_token : {41}, dist_token : DistTokenAccounts \cup {OtherTokenAccount},
     amount : 0..MaxFunded, transfer_ok : BOOLEAN]

\* funding stops at MaxFunded + 6
FundInto ==
    \E c \in VaultFundCalls :
        LET out == DoFund(accounts, tokens, c) IN
        /\ U64Value(Rec(c.d).funded_amount) + c.amount <= MaxFunded + 6
        /\ accounts' = out.accounts
        /\ tokens' = out.tokens
        /\ UNCHANGED <<initialized, begun>>
        /\ last' = out.res
        /\ UNCHANGED <<codec, store, client>>

VaultNext == FundInto

VaultSpec == VaultInit /\ [][VaultNext]_vars

(* C26: FundDistribution deposits into the token account of the             *)
(* distribution it credits: funded_amount is the total the FundDistribution*)
(* calls have moved into the distribution's own token account, and a call  *)
(* that names another destination token account does not raise             *)
(* funded_amount.                                                           *)
C26_FundedIsInVault ==
    /\ U64Value(Rec(DistAddress).funded_amount) = tokens.vault
    /\ \A c \in VaultFundCalls :
        c.dist_token # VaultAccount =>
            RecordAt(DoFund(accounts, tokens, c).accounts, c.d).funded_amount
                = Rec(c.d).funded_amount

----------------------------------------------------------------------------
(* What each instruction writes *)

\* the fields of a record
Fields == DOMAIN Distribution_default

\* the fields no instruction writes after InitializeDistribution
FixedFields == {"version", "seed", "project_name", "bump", "token", "max_recipients"}

\* the fields in which after differs from before
Written(before, after) == {f \in Fields : after[f] # before[f]}

\* the call leaves the records as it should: those at other addresses (records
\* is the set of them all) alone, in the one it names at most the field of its
\* instruction
WritesOnly(records, out, d, field) ==
    /\ \A e \in records \ {d} : out.accounts[e] = accounts[e]
    /\ d \in records =>
        LET written == Written(Rec(d), RecordAt(out.accounts, d)) IN
        /\ written \cap FixedFields = {}
        /\ IF out.res = Ok THEN written \subseteq {field} ELSE out.accounts[d] = accounts[d]

(* C27: a successful FundDistribution changes only funded_amount of the     *)
(* record, SetDistAuthority only dist_authority, BeginDistribution only    *)
(* num_recipients, Distribute only sent_recipients; no instruction,        *)
(* InitializeDistribution included, changes version, seed, project name,   *)
(* bump, token or max_recipients of an initialized record.                 *)
C27_EachWritesItsField ==
    LET records == Records IN
    /\ \A c \in FundCalls :
        WritesOnly(records, DoFund(accounts, tokens, c), c.d, "funded_amount")
    /\ \A c \in SetAuthorityCalls :
        WritesOnly(records, DoSetAuthority(accounts, tokens, c), c.d, "dist_authority")
    /\ \A c \in BeginCalls :
        WritesOnly(records, DoBegin(accounts, tokens, c), c.d, "num_recipients")
    /\ \A c \in DistributeCalls :
        WritesOnly(records, DoDistribute(accounts, tokens, c), c.d, "sent_recipients")
    /\ \A c \in InitializeCalls :
        LET out == DoInitialize(accounts, tokens, c) IN
        \A e \in records : out.accounts[e] = accounts[e]

\* a record that has been funded, handed to the second key or left with it,
\* started and paid from, with room for a further payout
C27_Witness ==
    /\ last = Ok
    /\ DistAddress \in Records
    /\ Rec(DistAddress).funded_amount # U64(0)
    /\ Rec(DistAddress).dist_authority = 2
    /\ Rec(DistAddress).num_recipients > 0
    /\ Rec(DistAddress).sent_recipients > 0
    /\ Rec(DistAddress).sent_recipients < Rec(DistAddress).max_recipients

----------------------------------------------------------------------------
(* The counters only grow *)

\* a <= b for two u64s: decided by the most significant digit that differs
RECURSIVE U64Leq(_, _, _)
U64Leq(a, b, i) ==
    IF i = 0 THEN TRUE
    ELSE IF a[i] # b[i] THEN a[i] < b[i]
    ELSE U64Leq(a, b, i - 1)

(* C28: from one state to the next, whatever instruction is processed,      *)
(* funded_amount and sent_recipients of a record never decrease.           *)
C28_CountersNeverDecrease ==
    [][\A d \in Records :
          /\ U64Leq(Rec(d).funded_amount, RecordAt(accounts', d).funded_amount, U64_BYTES)
          /\ Rec(d).sent_recipients <= RecordAt(accounts', d).sent_recipients]_vars

\* both counters of a record have grown
C28_Witness ==
    /\ last = Ok
    /\ DistAddress \in Records
    /\ Rec(DistAddress).funded_amount = U64(MaxFunded)
    /\ Rec(DistAddress).sent_recipients = Rec(DistAddress).max_recipients
    /\ Rec(DistAddress).max_recipients > 1

----------------------------------------------------------------------------
(* The order of the checks *)

\* the error of the first of the checks common to SetDistAuthority,
\* BeginDistribution and Distribute that the call fails on the record at
\* c.d, "passed" when it fails none: owner, signature, stored authority
FirstRefusal(c) ==
    IF accounts[c.d].owner # ProgramId THEN IncorrectProgramId
    ELSE IF ~c.signed THEN MissingRequiredSignature
    ELSE IF c.signer # Rec(c.d).dist_authority THEN UnauthorizedDistAuthority
    ELSE "passed"

\* the region at d unpacks to an initialized record, whoever owns the account
HoldsRecord(d) == unpack(accounts[d].data).err = Ok

\* the error of the first recipient account of the batch at which the loop of
\* Distribute stops before a transfer, "passed" when there is none: at each
\* turn the capacity first, then the owner of the recipient account
RECURSIVE FirstRecipientRefusal(_, _, _)
FirstRecipientRefusal(c, dist, j) ==
    IF j > Len(c.batch) THEN "passed"
    ELSE IF dist.sent_recipients + (j - 1) >= dist.max_recipients THEN TooManyRecipients
    ELSE IF TokenAccountOwner(c.batch[j]) # c.tp THEN InvalidArgument
    ELSE IF ~TurnPasses(c, dist, j) THEN TokenTransferRejected
    ELSE FirstRecipientRefusal(c, dist, j + 1)

\* out is the refusal with the error e, before any write, when e is an error
RefusedWith(out, e) ==
    e # "passed" => out = Fail(e, accounts, tokens)

(* C29: in SetDistAuthority, BeginDistribution and Distribute, on a region  *)
(* that holds a record (and, for Distribute, with the token program in     *)
(* place), the first failing check in the order owner of the distribution  *)
(* account (IncorrectProgramId), signature of the authority                *)
(* (MissingRequiredSignature), stored authority                            *)
(* (UnauthorizedDistAuthority), state (DistributionAlreadyStarted for      *)
(* BeginDistribution; for Distribute, recipient by recipient,              *)
(* TooManyRecipients then InvalidArgument) determines the error, and the   *)
(* call has written nothing.                                                *)
C29_ChecksInOrder ==
    /\ \A c \in SetAuthorityCalls :
        HoldsRecord(c.d) =>
            LET out == DoSetAuthority(accounts, tokens, c) IN
            /\ RefusedWith(out, FirstRefusal(c))
            /\ FirstRefusal(c) = "passed" => out.res = Ok
    /\ \A c \in BeginCalls :
        HoldsRecord(c.d) =>
            LET out == DoBegin(accounts, tokens, c) IN
            /\ RefusedWith(out, FirstRefusal(c))
            /\ FirstRefusal(c) = "passed" =>
                IF has_started(Rec(c.d)) THEN out = Fail(DistributionAlreadyStarted, accounts, tokens)
                ELSE out.res = Ok
    /\ \A c \in DistributeCalls :
        (HoldsRecord(c.d) /\ c.tp = TokenProgramId) =>
            LET out == DoDistribute(accounts, tokens, c)
                stop == FirstRecipientRefusal(c, Rec(c.d), 1)
            IN
            /\ RefusedWith(out, FirstRefusal(c))
            /\ FirstRefusal(c) = "passed" =>
                /\ out.res = (IF stop = "passed" THEN Ok ELSE stop)
                /\ stop # "passed" => out.accounts = accounts /\ out.tokens = tokens

\* a started, full record on which the signed calls of another key are
\* refused for the authority, where the state check would have refused them too
C29_Witness ==
    /\ last = Ok
    /\ DistAddress \in Records
    /\ has_started(Rec(DistAddress))
    /\ Rec(DistAddress).sent_recipients = Rec(DistAddress).max_recipients
    /\ \E c \in BeginCalls :
        /\ c.d = DistAddress /\ c.signed /\ c.signer # Rec(DistAddress).dist_authority
        /\ DoBegin(accounts, tokens, c).res = UnauthorizedDistAuthority
    /\ \E c \in DistributeCalls :
        /\ c.d = DistAddress /\ c.signed /\ c.signer # Rec(DistAddress).dist_authority
        /\ c.tp = TokenProgramId /\ Len(c.batch) > 0
        /\ DoDistribute(accounts, tokens, c).res = UnauthorizedDistAuthority

----------------------------------------------------------------------------
(* The client's distribute subcommand: the recipients of a file paid in    *)
(* chunks, one transaction per chunk, restarted with --skip after a        *)
(* failure                                                                  *)

DISTRIBUTE_CHUNK_SIZE == 2    \* recipients per transaction (20 in the client)
MaxListed == 3                \* a recipients file has at most MaxListed lines

\* the token accounts of the recipients a file can list
ListedAccounts == 50..(49 + MaxListed)

\* the recipients files: lists without a duplicate
RecipientLists ==
    {l \in UNION {[1..n -> ListedAccounts] : n \in 0..MaxListed} :
        \A i, j \in 1..Len(l) : l[i] = l[j] => i = j}

\* mutant: the --skip of a restart taken from the client's own count
resume_skip_counted(sent_recipients, counted) == counted

\* the --skip of a restart: sent_recipients as the record shows it, not the
\* count of the recipients the client believes it has paid
resume_skip(sent_recipients, counted) == sent_recipients

\* participants[skip..]
Remaining(c) == SubSeq(c.recipients, c.skip + 1, Len(c.recipients))

\* the chunk the run is about to send: chunks(DISTRIBUTE_CHUNK_SIZE), item c.chunk
NextChunk(c) ==
    LET rest == Remaining(c)
        from == c.chunk * DISTRIBUTE_CHUNK_SIZE + 1
        to == IF from + DISTRIBUTE_CHUNK_SIZE - 1 < Len(rest)
              THEN from + DISTRIBUTE_CHUNK_SIZE - 1 ELSE Len(rest)
    IN SubSeq(rest, from, to)

\* a started distribution for the recipients of the file, one token each, in
\* a vault that holds enough to pay each of them twice; the cap is the
\* number of recipients or beyond it
ClientInit ==
    /\ \E l \in RecipientLists : \E max \in {Len(l), 2 * MaxListed} :
        /\ client = [recipients |-> l, skip |-> 0, chunk |-> 0, status |-> "running"]
        /\ accounts = [InitialAccounts EXCEPT ![DistAddress] =
              [owner |-> ProgramId,
               data |-> pack_into_slice(
                   [init(Distribution_default, 1, 2, 255, 1, 15, max, Len(l))
                       EXCEPT !.funded_amount = U64(Len(l))])]]
        /\ tokens = [payouts |-> [r \in ListedAccounts |-> 0], vault |-> 2 * Len(l)]
    /\ initialized = {DistAddress}
    /\ begun = {d \in {DistAddress} : has_started(RecordAt(accounts, d))}
    /\ last = "none"
    /\ CodecIdle
    /\ StoreIdle

\* one transaction of the loop: the chunk is processed as one Distribute,
\* which the token program may refuse at one of its recipients; the run goes
\* on when the transaction is confirmed and stops when it failed, or when
\* its confirmation did not reach the client
ClientSendChunk ==
    /\ client.status = "running"
    /\ NextChunk(client) # <<>>
    /\ \E fail_at \in 0..DISTRIBUTE_CHUNK_SIZE : \E confirmed \in BOOLEAN :
        LET c == [d |-> DistAddress, signer |-> Rec(DistAddress).dist_authority,
                  signed |-> TRUE, tp |-> TokenProgramId, dist_token |-> VaultAccount,
                  batch |-> NextChunk(client), fail_at |-> fail_at]
            out == DoDistribute(accounts, tokens, c)
        IN
        /\ fail_at <= Len(c.batch)
        /\ accounts' = out.accounts
        /\ tokens' = out.tokens
        /\ last' = out.res
        /\ client' = IF out.res = Ok /\ confirmed
                     THEN [client EXCEPT !.chunk = @ + 1]
                     ELSE [client EXCEPT !.status = "failed"]
        /\ UNCHANGED <<initialized, begun, codec, store>>

\* the loop has no chunk left: "Success!"
ClientFinish ==
    /\ client.status = "running"
    /\ NextChunk(client) = <<>>
    /\ client' = [client EXCEPT !.status = "done"]
    /\ UNCHANGED <<ledger, codec, store>>

\* the operator runs the subcommand again with --skip
ClientRestart ==
    /\ client.status = "failed"
    /\ client' = [client EXCEPT
                    !.skip = resume_skip(Rec(DistAddress).sent_recipients,
                                         client.skip + client.chunk * DISTRIBUTE_CHUNK_SIZE),
                    !.chunk = 0, !.status = "running"]
    /\ UNCHANGED <<ledger, codec, store>>

ClientNext ==
    \/ ClientSendChunk
    \/ ClientFinish
    \/ ClientRestart

ClientSpec == ClientInit /\ [][ClientNext]_vars

(* C30: when the client sends a duplicate-free recipients list as           *)
(* consecutive chunks taken in order from recipients[skip..], stops at the *)
(* first failed transaction and restarts with skip = the record's          *)
(* sent_recipients, then at the end of a run that sent every chunk each    *)
(* listed recipient has been paid exactly once, nobody else has been paid, *)
(* and sent_recipients is the number of listed recipients.                 *)
C30_ResumptionPaysOnce ==
    client.status = "done" =>
        /\ \A i \in 1..Len(client.recipients) : tokens.payouts[client.recipients[i]] = 1
        /\ \A r \in ListedAccounts :
            (\A i \in 1..Len(client.recipients) : client.recipients[i] # r)
            => tokens.payouts[r] = 0
        /\ Rec(DistAddress).sent_recipients = Len(client.recipients)

\* a list of several chunks has been paid to the end by a run restarted
\* after its first chunk
C30_Witness ==
    /\ client.status = "done"
    /\ Len(client.recipients) > DISTRIBUTE_CHUNK_SIZE
    /\ client.skip = DISTRIBUTE_CHUNK_SIZE

----------------------------------------------------------------------------
(* Two Distribute transactions on one record, serialized by the host *)

\* the Distribute calls of the stored authority on the record at DistAddress,
\* out of its vault, with a token program that refuses no transfer it can make
SerialCalls ==
    {c \in DistributeCalls :
        /\ c.d = DistAddress /\ c.signed /\ c.tp = TokenProgramId
        /\ c.dist_token = VaultAccount /\ c.fail_at = 0
        /\ c.signer = Rec(DistAddress).dist_authority}

\* c1 processed on the current state, then c2 on what c1 has left
Serialized(c1, c2) ==
    LET first == DoDistribute(accounts, tokens, c1) IN
    [first |-> first, second |-> DoDistribute(first.accounts, first.tokens, c2)]

\* the recipients a call has added to sent_recipients
Paid(out, c) == IF out.res = Ok THEN Len(c.batch) ELSE 0

\* sent_recipients after the two is the value before plus the batches that succeeded
SentAddsUp(s, c1, c2) ==
    RecordAt(s.second.accounts, DistAddress).sent_recipients
        = Rec(DistAddress).sent_recipients + Paid(s.first, c1) + Paid(s.second, c2)

\* the second of the two has failed and left everything as the first left it
SecondWithoutEffect(s) ==
    /\ s.second.res # Ok
    /\ s.second.accounts = s.first.accounts
    /\ s.second.tokens = s.first.tokens

\* the recipients the record at DistAddress still has room for
Remaining_capacity ==
    Rec(DistAddress).max_recipients - Rec(DistAddress).sent_recipients

(* C31 as stated: of two Distribute transactions on one record, serialized  *)
(* in either order, the final sent_recipients is the initial value plus    *)
(* the sizes of the batches that succeeded; when both batches fit the      *)
(* remaining capacity both orders give the same final record; when the two *)
(* batches together exceed the remaining capacity the one serialized       *)
(* second fails without effect.                                            *)
C31_SerializedEitherOrder ==
    DistAddress \in Records =>
        \A c1, c2 \in SerialCalls :
            LET ab == Serialized(c1, c2)
                ba == Serialized(c2, c1)
            IN
            /\ SentAddsUp(ab, c1, c2)
            /\ Len(c1.batch) + Len(c2.batch) <= Remaining_capacity
               => RecordAt(ab.second.accounts, DistAddress)
                    = RecordAt(ba.second.accounts, DistAddress)
            /\ Len(c1.batch) + Len(c2.batch) > Remaining_capacity
               => SecondWithoutEffect(ab)

(* C31 amended: of two Distribute transactions on one record, serialized in *)
(* either order, the second is processed on the record the first has left: *)
(* the final sent_recipients is the initial value plus the sizes of the    *)
(* batches that succeeded; when both succeed in one order both succeed in  *)
(* the other, with the same final accounts and balances; when the first    *)
(* has succeeded and the two batches together exceed the remaining         *)
(* capacity, the second fails without effect.  (A first batch too long for *)
(* the remaining capacity fails alone, and a second that fits succeeds.)   *)
C31_SerializedReadsFresh ==
    DistAddress \in Records =>
        \A c1, c2 \in SerialCalls :
            LET ab == Serialized(c1, c2)
                ba == Serialized(c2, c1)
            IN
            /\ SentAddsUp(ab, c1, c2)
            /\ (ab.first.res = Ok /\ ab.second.res = Ok)
               => /\ ba.first.res = Ok /\ ba.second.res = Ok
                  /\ ba.second.accounts = ab.second.accounts
                  /\ ba.second.tokens = ab.second.tokens
            /\ (ab.first.res = Ok /\ Len(c1.batch) + Len(c2.batch) > Remaining_capacity)
               => SecondWithoutEffect(ab)

\* a record with room for one more recipient after a payout, and two batches
\* of one recipient each: whichever is serialized first succeeds, the other
\* is refused for the capacity
C31_Witness ==
    /\ last = Ok
    /\ DistAddress \in Records
    /\ Rec(DistAddress).sent_recipients = 1
    /\ Remaining_capacity = 1
    /\ \E c1, c2 \in SerialCalls :
        /\ c1.batch # c2.batch
        /\ Len(c1.batch) = 1 /\ Len(c2.batch) = 1
        /\ Serialized(c1, c2).first.res = Ok
        /\ Serialized(c1, c2).second.res = TooManyRecipients
        /\ Serialized(c2, c1).first.res = Ok
        /\ Serialized(c2, c1).second.res = TooManyRecipients

----------------------------------------------------------------------------
(* The authority distributes until the record is complete *)

\* a record that has been created, funded and begun, nothing sent yet, with a
\* vault that covers every transfer the record can ask for
DrainInit ==
    /\ \E authority \in Keys : \E max, num \in 0..MaxCap : \E funded \in 0..MaxFunded :
        accounts = [InitialAccounts EXCEPT ![DistAddress] =
            [owner |-> ProgramId,
             data |-> pack_into_slice(
                 [init(Distribution_default, 1, 2, 255, authority, 15, max, num)
                     EXCEPT !.funded_amount = U64(funded)])]]
    /\ tokens = [payouts |-> [r \in Recipients |-> 0], vault |-> MaxFunded * MaxCap]
    /\ initialized = {DistAddress}
    /\ begun = {DistAddress}
    /\ last = Ok
    /\ CodecIdle
    /\ StoreIdle
    /\ ClientIdle

\* sent_recipients has reached max_recipients
Complete == Rec(DistAddress).sent_recipients = Rec(DistAddress).max_recipients

\* the non-empty Distribute calls on the record at DistAddress
NonEmptyCalls == {c \in DistributeCalls : c.d = DistAddress /\ Len(c.batch) > 0}

\* the non-empty batches of token accounts that fit the remaining capacity,
\* in the calls of the authority
FittingCalls ==
    {c \in SerialCalls \cap NonEmptyCalls :
        /\ Len(c.batch) <= Remaining_capacity
        /\ \A i \in 1..Len(c.batch) : c.batch[i] \in Recipients}

\* the authority submits a fitting batch, and the token program refuses no
\* transfer the vault covers
DistributeFitting ==
    \E c \in FittingCalls :
        LET out == DoDistribute(accounts, tokens, c) IN
        /\ accounts' = out.accounts
        /\ tokens' = out.tokens
        /\ last' = out.res
        /\ UNCHANGED <<initialized, begun, codec, store, client>>

\* a non-empty Distribute call on the complete record, whoever sends it
DistributeOnComplete ==
    /\ Complete
    /\ \E c \in NonEmptyCalls :
        LET out == DoDistribute(accounts, tokens, c) IN
        /\ accounts' = out.accounts
        /\ tokens' = out.tokens
        /\ last' = out.res
        /\ UNCHANGED <<initialized, begun, codec, store, client>>

DrainNext == DistributeFitting \/ DistributeOnComplete

\* the authority keeps submitting: weak fairness of DistributeFitting, its
\* enabling condition (a fitting batch exists) written out
DrainSpec ==
    /\ DrainInit
    /\ [][DrainNext]_vars
    /\ ([]<>(FittingCalls = {}) \/ []<><<DistributeFitting>>_vars)

----------------------------------------------------------------------------
(* The client's create-and-fund and create-distribution subcommands: the   *)
(* address and the bump they derive, and the InitializeDistribution they   *)
(* send for it                                                             *)

\* Pubkey::create_program_address over a list of seeds that ends with the bump:
\* the hash create_pubkey takes of its three seeds, with no project name in it
\* when the list holds the seed and the bump alone: [err, key]
create_program_address(seeds, program_id) ==
    LET n == Len(seeds)
        middle == IF n = 3 THEN seeds[2] * 6 ELSE 0
        h == (seeds[1] * 2 + middle + seeds[n] + program_id) % 8
    IN IF h = 6 THEN [err |-> InvalidSeeds, key |-> 0] ELSE [err |-> Ok, key |-> 20 + h]

\* Pubkey::find_program_address: the first bump, from 255 down, whose address
\* is off the curve: [key, bump]
RECURSIVE find_program_address_from(_, _, _)
find_program_address_from(seeds, program_id, bump) ==
    LET pda == create_program_address(Append(seeds, bump), program_id) IN
    IF pda.err = Ok \/ bump = 0 THEN [key |-> pda.key, bump |-> bump]
    ELSE find_program_address_from(seeds, program_id, bump - 1)

find_program_address(seeds, program_id) == find_program_address_from(seeds, program_id, 255)

\* every address a derivation can give, not in use yet
DerivedAccounts == [d \in 20..27 |-> [owner |-> SystemProgramId, data |-> <<>>]]

\* the seeds a user passes on the command line
DeriveSeeds == 1..4

\* a subcommand about to run: its arguments are read, nothing is derived yet
DeriveInit ==
    /\ accounts = DerivedAccounts
    /\ tokens = [payouts |-> [r \in Recipients |-> 0], vault |-> 0]
    /\ initialized = {}
    /\ begun = {}
    /\ last = Ok
    /\ CodecIdle
    /\ StoreIdle
    /\ \E seed \in DeriveSeeds, project \in ProjectNames, max \in 0..MaxCap, authority \in Keys :
        client = [command |-> "none", seed |-> seed, project |-> project,
                  max |-> max, authority |-> authority, dist_account |-> 0, bump |-> 0]

\* the InitializeDistribution a subcommand sends for the address it derived,
\* with the fee payer's signature and the token program
SendInitialize(command, derived) ==
    LET out == process_initialize_distribution(accounts, tokens, ProgramId, TRUE,
                   TokenProgramId, 15, derived.key, client.seed, client.project,
                   derived.bump, client.max, client.authority)
    IN
    /\ client.command = "none"
    /\ client' = [client EXCEPT !.command = command, !.dist_account = derived.key,
                                !.bump = derived.bump]
    /\ accounts' = out.accounts
    /\ tokens' = out.tokens
    /\ initialized' = IF out.res = Ok THEN initialized \cup {derived.key} ELSE initialized
    /\ begun' = begun
    /\ last' = out.res
    /\ UNCHANGED <<codec, store>>

\* create-and-fund derives from the seed and the project name
CreateAndFund ==
    SendInitialize("create-and-fund",
                   find_program_address(<<client.seed, client.project>>, ProgramId))

\* create-distribution derives from the seed alone
CreateDistribution ==
    SendInitialize("create-distribution", find_program_address(<<client.seed>>, ProgramId))

DeriveNext ==
    \/ CreateAndFund
    \/ CreateDistribution

DeriveSpec == DeriveInit /\ [][DeriveNext]_vars

(* C33: the address and the bump the client derives in create-and-fund and *)
(* in create-distribution pass the address check of InitializeDistribution  *)
(* (fails: create-distribution derives from the seed alone, the program     *)
(* from the seed, the project name and the bump)                            *)
C33_ClientAddressAccepted ==
    client.command # "none" => last # InvalidSeeds

\* create-and-fund alone: its address is accepted and the record is created there
C33_CreateAndFundAccepted ==
    client.command = "create-and-fund" =>
        /\ last = Ok
        /\ initialized = {client.dist_account}

\* create-distribution is refused at the address check, whatever the seed
C33_CreateDistributionRefused ==
    client.command = "create-distribution" => last = InvalidSeeds /\ initialized = {}

(* C34: in every reachable state num_recipients <= max_recipients:          *)
(* BeginDistribution cannot lock a recipient count above the cap fixed at   *)
(* creation (fails: process_begin_distribution stores any count)            *)
C34_NumWithinCap ==
    \A d \in initialized : Rec(d).num_recipients <= Rec(d).max_recipients

\* what the successful Distribute calls have moved out of the vault since the
\* record of DrainSpec was begun
Paid_out == MaxFunded * MaxCap - tokens.vault

(* C35: over the life of a record, the sum of the amounts successful        *)
(* Distribute calls move out of the distribution token account never         *)
(* exceeds funded_amount (fails: max_recipients shares of                    *)
(* funded_amount / num_recipients are paid when the account holds them)      *)
C35_PaidWithinFunded ==
    Paid_out <= U64Value(Rec(DistAddress).funded_amount)

\* what is paid stays within max_recipients shares
C35_PaidWithinShares ==
    Paid_out = Rec(DistAddress).sent_recipients * U64Value(recipient_share(Rec(DistAddress)))

(* C36: every initialized record the instructions produce sits at the       *)
(* address derived from the seed, the project name and the bump it stores,  *)
(* under the program id.                                                    *)
C36_RecordsAtDerivedAddress ==
    \A d \in DistAddrs :
        IsRecord(d) => StoredAddress(d) = [err |-> Ok, key |-> d]

\* a record has been created, funded, begun and paid from
C36_Witness ==
    /\ last = Ok
    /\ \E d \in Records :
        /\ d \in begun
        /\ Rec(d).sent_recipients > 0
        /\ Rec(d).funded_amount # U64(0)

\* d holds an initialized record of this program in the next state
IsRecordNext(d) == accounts'[d].owner = ProgramId /\ unpack(accounts'[d].data).err = Ok

(* C37: once the version of a record is V1 it is V1 in every later state:   *)
(* no instruction returns a record to Uninitialized or deletes it.          *)
C37_StaysInitialized ==
    [][\A d \in DistAddrs :
          IsRecord(d) => IsRecordNext(d) /\ RecordAt(accounts', d).version = VERSION_1]_vars

\* a record that every instruction has written to
C37_Witness ==
    /\ last = Ok
    /\ DistAddress \in Records
    /\ DistAddress \in begun
    /\ Rec(DistAddress).version = VERSION_1
    /\ Rec(DistAddress).dist_authority = 2
    /\ Rec(DistAddress).funded_amount # U64(0)
    /\ Rec(DistAddress).sent_recipients > 0

----------------------------------------------------------------------------
(* The payout counter at the end of its 16 bits *)

U16_MAX == 65535

\* caps at both ends of 0..U16_MAX, and the counts sent_recipients can hold
\* under each of them when at most MaxBatch payouts remain
CounterCaps == {0, 1, U16_MAX - 1, U16_MAX}
CounterSents(max) == {s \in 0..max : s >= max - MaxBatch}

\* a begun record of one share per token funded, its payouts under way, and a
\* vault that covers the batches
CounterInit ==
    /\ \E authority \in Keys : \E max \in CounterCaps : \E sent \in CounterSents(max) :
       \E funded \in 0..1 :
        accounts = [InitialAccounts EXCEPT ![DistAddress] =
            [owner |-> ProgramId,
             data |-> pack_into_slice(
                 [init(Distribution_default, 1, 2, 255, authority, 15, max, 1)
                     EXCEPT !.funded_amount = U64(funded), !.sent_recipients = sent])]]
    /\ tokens = [payouts |-> [r \in Recipients |-> 0], vault |-> 2 * MaxBatch]
    /\ initialized = {DistAddress}
    /\ begun = {DistAddress}
    /\ last = Ok
    /\ CodecIdle
    /\ StoreIdle
    /\ ClientIdle

CounterNext == Distribute

CounterSpec == CounterInit /\ [][CounterNext]_vars

(* C38: the 16-bit increment of sent_recipients in Distribute never         *)
(* overflows, for any batch length and any max_recipients in 0..65535: the  *)
(* loop of a call, also of one that fails later, leaves a count that is the *)
(* count before plus the recipients it paid, within max_recipients.         *)
C38_IncrementNeverOverflows ==
    LET dist == Rec(DistAddress) IN
    \A c \in DistributeCalls :
        c.d = DistAddress =>
            LET done == distribute_loop(dist, tokens, c.dist_token, c.batch, 1, c.tp,
                                        recipient_share(dist), c.fail_at)
                paid == done.dist.sent_recipients - dist.sent_recipients
            IN
            /\ paid >= 0
            /\ paid <= Len(c.batch)
            /\ done.res = Ok => paid = Len(c.batch)
            /\ done.dist.sent_recipients <= dist.max_recipients
            /\ paid = Len(done.invoked) - (IF done.res = TokenTransferRejected THEN 1 ELSE 0)

\* a Distribute has brought the count to the last value 16 bits hold
C38_Witness ==
    /\ last = Ok
    /\ Rec(DistAddress).sent_recipients = U16_MAX
    /\ Rec(DistAddress).max_recipients = U16_MAX
    /\ \E r \in Recipients : tokens.payouts[r] > 0

====
